---- MODULE Spec2Model ----
(***************************************************************************)
(* Evaluation pipeline of eval-dashboard: the question evaluator            *)
(* (core/evaluate.py and api/background.py), the LLM judge (core/judge.py), *)
(* the two-level thread-pool harness, the drift analysis (core/db.py), the  *)
(* drift detector (core/drift_detector.py), the retrieval system            *)
(* (core/retrieval.py) and the RAG evaluator (core/rag_evaluate.py).        *)
(*                                                                          *)
(* Scores and run metrics are floats in the source; they are modelled as    *)
(* integers counting hundredths (0.05 is 5, 1.0 is 100).                    *)
(***************************************************************************)
EXTENDS Integers, Sequences, FiniteSets, TLC

\* state of a harness run (Part 2)
VARIABLES
    impl,            \* harness implementation: "core" (main) or "api" (run_evaluation_task)
    models,          \* the models submitted, 1..n
    questions,       \* the questions of the dataset, 1..n
    hpc,             \* harness position: "collecting" or "done"
    model_futures,   \* per model: "pending", "running", "finished" or "failed"
    submitted,       \* per model: questions submitted to its inner executor
    pool_failed,     \* per model: executor.submit raised in evaluate_model_parallel
    next_q,          \* per model: questions picked up by an inner worker so far
    inflight,        \* per model: questions being evaluated by an inner worker
    question_raised, \* per model: questions whose evaluate_question raised
    results,         \* per model: the results list of evaluate_model_parallel
    collected,       \* models whose future the main thread has consumed
    all_results,     \* all_results of the harness
    save_calls,      \* the models save_run was called for, in call order
    db_runs,         \* the models whose save_run committed
    db_rows,         \* per model: the accuracy and total_questions of its committed run
    saving           \* the models whose save_run call has begun and not ended

hvars == <<impl, models, questions, hpc, model_futures, submitted, pool_failed,
           next_q, inflight, question_raised, results, collected, all_results,
           save_calls, db_runs, db_rows, saving>>

\* state of one evaluate_question call (Part 3)
VARIABLES
    eq_impl,        \* the implementation called
    eq_image_path,  \* q['image_path'] (read by core/evaluate.py only)
    eq_pc,          \* "ready" before the call, "done" after it
    eq_calls,       \* the outcomes of the model calls made, in order
    eq_judge,       \* the outcome of the judge call, NoJudge if it was not made
    eq_result       \* the dict returned

evars == <<eq_impl, eq_image_path, eq_pc, eq_calls, eq_judge, eq_result>>

\* state of the run history and its analyses (Part 4)
VARIABLES
    runs,       \* rows of table runs: [id, model_name, timestamp, metric = accuracy]
    rag_runs,   \* rows of table rag_runs: [id, model_name, timestamp, metric = avg_recall]
    clock,      \* datetime.utcnow() at the last write
    analysis,   \* the value the last drift analysis returned, NoAnalysis after a write
    report      \* the last process_run: what it returned and the sends it made

dvars == <<runs, rag_runs, clock, analysis, report>>

\* state of one metrics computation of evaluate_retrieval (Part 5)
VARIABLES
    m_pc,          \* "ready" before the computation, "done" after it
    m_corpus,      \* len(self.documents); the chunk ids are 1..m_corpus
    m_retrieved,   \* retrieved_ids: the chunk ids of the retrieved documents, by rank
    m_relevant,    \* relevant_chunk_ids
    m_top_k,       \* top_k
    m_metrics      \* the dict returned

mvars == <<m_pc, m_corpus, m_retrieved, m_relevant, m_top_k, m_metrics>>

\* state of a RetrievalSystem serving worker threads (Part 6)
VARIABLES
    rs_documents,   \* self.documents
    rs_embeddings,  \* self.embeddings, one vector per entry
    argsort_ties,   \* the order np.argsort gives to equal similarities
    workers,        \* per thread: its call of retrieve or evaluate_retrieval
    first_results   \* per query: the ranking the first finished retrieval returned

rvars == <<rs_documents, rs_embeddings, argsort_ties, workers, first_results>>

\* state of the knowledge base, the embedding cache and the RetrievalSystem
\* constructed last (Part 7)
VARIABLES
    kb_documents,  \* data['documents'] of the knowledge base file
    cache_files,   \* per cache path: the pickled embeddings, NoFile if none
    system         \* the RetrievalSystem constructed last and how it got its embeddings

cvars == <<kb_documents, cache_files, system>>

\* state of one evaluate_single_question call of the RAG evaluator (Part 8)
VARIABLES
    rq_pc,   \* "ready" before the call, "done" after it
    rq_env,  \* what the retriever, the generation call and the two judge calls do
    rq_out   \* whether the call raised, the calls it made and the dict returned

qvars == <<rq_pc, rq_env, rq_out>>

\* state of one evaluate_all call of the RAG evaluator (Part 8)
VARIABLES
    ra_parallel,   \* the parameter parallel
    ra_questions,  \* self.questions, 1..n
    ra_pc,         \* "evaluating", "returned" or "raised"
    ra_futures,    \* per question: "queued", "running", "finished", "failed" or "consumed"
    ra_outcomes,   \* per question: what its evaluate_single_question did
    ra_i,          \* the questions the sequential loop has evaluated
    ra_results,    \* the list results
    ra_summary     \* the summary returned

avars == <<ra_parallel, ra_questions, ra_pc, ra_futures, ra_outcomes, ra_i,
           ra_results, ra_summary>>

gvars == <<qvars, avars>>

xvars == <<mvars, rvars, cvars, gvars>>


(***************************************************************************)
(* Part 1: the judge and the question evaluator                             *)
(***************************************************************************)

\* the two evaluate_question implementations
Impls == {"core", "api"}

MAX_RETRIES == 2

BACKOFF_DELAYS == <<5, 10>>

\* words the retry test of core/evaluate.py looks for in str(e).lower()
Keywords == {"timeout", "connection"}

\* a status body or an exception message, as the set of keywords it contains
Texts == SUBSET Keywords

\* what one model call can do: "ok" is a well-formed success reply, "badbody"
\* a success reply whose content cannot be extracted, "status" a non-success
\* HTTP status, "timeout"/"connection" the transport errors, "other" any other
\* exception; text is the status body or the exception message
CallOutcomes ==
    {[kind |-> "ok", text |-> {}]}
    \cup [kind : {"badbody", "status", "timeout", "connection", "other"}, text : Texts]

\* one outcome for each of the MAX_RETRIES + 1 attempts the loop can make
CallEnvs == [1..(MAX_RETRIES + 1) -> CallOutcomes]

\* values the judge may put in the "score" field, in hundredths
JudgeScores == {-50, 0, 80, 100, 150}

\* no judge content (the judge's reply was never read)
NoContent ==
    [form |-> "none", has_score |-> FALSE, numeric |-> FALSE, score |-> 0,
     has_reasoning |-> FALSE]

\* the text content of the judge's reply: free text, a JSON value that is not
\* an object, or a JSON object with or without the two keys; a "score" value
\* is a number or something float() rejects
JudgeContents ==
    {[form |-> f, has_score |-> FALSE, numeric |-> FALSE, score |-> 0,
      has_reasoning |-> FALSE] : f \in {"text", "array"}}
    \cup {[form |-> "object", has_score |-> FALSE, numeric |-> FALSE, score |-> 0,
           has_reasoning |-> hr] : hr \in BOOLEAN}
    \cup {[form |-> "object", has_score |-> TRUE, numeric |-> FALSE, score |-> 0,
           has_reasoning |-> hr] : hr \in BOOLEAN}
    \cup {[form |-> "object", has_score |-> TRUE, numeric |-> TRUE, score |-> s,
           has_reasoning |-> hr] : s \in JudgeScores, hr \in BOOLEAN}

\* what the judge call can do: raise, answer with a non-200 status, answer 200
\* with a body that is not the expected envelope, or answer with a content
JudgeOutcomes ==
    {[kind |-> k, content |-> NoContent] : k \in {"exception", "status", "badbody"}}
    \cup {[kind |-> "reply", content |-> c] : c \in JudgeContents}

\* the judge was not called
NoJudge == [kind |-> "none", content |-> NoContent]

\* a reasoning string: an optional retry marker with its count, the text that
\* follows, and the raw payload embedded in it (NoContent when none is)
Reasoning(marker, retries, text, payload) ==
    [marker |-> marker, retries |-> retries, text |-> text, payload |-> payload]

\* json.loads(content) followed by the two parsed.get calls: TRUE when the
\* try block of score_answer completes without an exception
JudgeParses(c) ==
    /\ c.form = "object"
    /\ c.has_score => c.numeric

\* the value of (score, reasoning) when the inner try block raises, whatever
\* the exception class
InvalidJsonReply(c) ==
    [raised |-> FALSE, score |-> 0,
     reasoning |-> Reasoning("none", 0, "Invalid JSON from judge", c)]

score_answer(j) ==
    IF j.kind = "exception" \/ j.kind = "badbody"
    THEN [raised |-> FALSE, score |-> 0,
          reasoning |-> Reasoning("none", 0, "Exception", NoContent)]
    ELSE IF j.kind = "status"
    THEN [raised |-> FALSE, score |-> 0,
          reasoning |-> Reasoning("none", 0, "HTTP", NoContent)]
    ELSE IF JudgeParses(j.content)
    THEN [raised |-> FALSE,
          score |-> IF j.content.has_score THEN j.content.score ELSE 0,
          reasoning |-> Reasoning("none", 0,
                          IF j.content.has_reasoning THEN "judge" ELSE "",
                          NoContent)]
    ELSE InvalidJsonReply(j.content)

\* the events one evaluate_question call performs, in order
CallEvent(attempt) == [op |-> "call", arg |-> attempt]
SleepEvent(delay) == [op |-> "sleep", arg |-> delay]
JudgeEvent == [op |-> "judge", arg |-> 0]

\* the dict a successful attempt returns
SuccessResult(j, retry_count, events) ==
    LET judged == score_answer(j)
    IN  [raised |-> judged.raised,
         events |-> Append(events, JudgeEvent),
         retry_count |-> retry_count,
         model_response |-> "content",
         score |-> judged.score,
         reasoning |-> IF retry_count > 0
                       THEN [judged.reasoning EXCEPT !.marker = "succeeded_after",
                                                     !.retries = retry_count]
                       ELSE judged.reasoning,
         latency |-> "measured"]

\* the dict returned after the loop: "Failed after {retry_count} retries: ..."
FailureResult(retry_count, events) ==
    [raised |-> FALSE, events |-> events, retry_count |-> retry_count,
     model_response |-> "none", score |-> 0,
     reasoning |-> Reasoning("failed_after", retry_count, "error", NoContent),
     latency |-> "none"]

\* api/background.py: the dict returned for a non-200 status
StatusResult(retry_count, events) ==
    [raised |-> FALSE, events |-> events, retry_count |-> retry_count,
     model_response |-> "", score |-> 0,
     reasoning |-> Reasoning("none", 0, "HTTP", NoContent),
     latency |-> "measured"]

\* core/evaluate.py: the dict returned when the image cannot be encoded
ImageFailureResult ==
    [raised |-> FALSE, events |-> <<>>, retry_count |-> 0,
     model_response |-> "none", score |-> 0,
     reasoning |-> Reasoning("none", 0, "Image file not found or unreadable", NoContent),
     latency |-> "none"]

\* api/background.py: the except clause for requests Timeout / ConnectionError
ApiIsTransient(o) == o.kind \in {"timeout", "connection"}

\* core/evaluate.py: should_retry, a test on the text of the exception
should_retry(o) == "timeout" \in o.text \/ "connection" \in o.text

\* the result variable before evaluate_question returns
NoResult ==
    [raised |-> FALSE, events |-> <<>>, retry_count |-> 0, model_response |-> "none",
     score |-> 0, reasoning |-> Reasoning("none", 0, "", NoContent), latency |-> "none"]

\* the local state of the retry loop; result is the dict returned once the
\* loop was left by return or break
LoopState(retry_count, events) ==
    [left |-> FALSE, retry_count |-> retry_count, events |-> events, result |-> NoResult]

Left(result) ==
    [left |-> TRUE, retry_count |-> result.retry_count, events |-> result.events,
     result |-> result]

\* the call left by an exception that no except clause caught
RaisedResult(retry_count, events) ==
    [FailureResult(retry_count, events) EXCEPT !.raised = TRUE]

\* ApiIteration without its "except Exception" clause
ApiIterationNoCatchAll(s, attempt, o, j) ==
    LET evs == Append(s.events, CallEvent(attempt))
    IN  IF o.kind = "ok"
        THEN Left(SuccessResult(j, s.retry_count, evs))
        ELSE IF o.kind = "status"
        THEN Left(StatusResult(s.retry_count, evs))
        ELSE IF ApiIsTransient(o)
        THEN IF attempt < MAX_RETRIES
             THEN LoopState(s.retry_count + 1,
                            Append(evs, SleepEvent(BACKOFF_DELAYS[attempt + 1])))
             ELSE Left(FailureResult(s.retry_count + 1, evs))
        ELSE Left(RaisedResult(s.retry_count, evs))

\* api/background.py: the body of "for attempt in range(MAX_RETRIES + 1)" when
\* the model call does o; a break is followed by the return after the loop
ApiIteration(s, attempt, o, j) ==
    LET evs == Append(s.events, CallEvent(attempt))
    IN  IF o.kind = "ok"
        THEN Left(SuccessResult(j, s.retry_count, evs))
        ELSE IF o.kind = "status"
        THEN Left(StatusResult(s.retry_count, evs))
        ELSE IF ApiIsTransient(o)
        THEN IF attempt < MAX_RETRIES
             THEN LoopState(s.retry_count + 1,
                            Append(evs, SleepEvent(BACKOFF_DELAYS[attempt + 1])))
             ELSE Left(FailureResult(s.retry_count + 1, evs))
        ELSE Left(FailureResult(s.retry_count, evs))

\* the judge call did not produce a score: it raised, answered with an error
\* status or a body without the envelope, or its content did not parse
JudgeFailed(j) ==
    \/ j.kind \in {"exception", "status", "badbody"}
    \/ j.kind = "reply" /\ ~JudgeParses(j.content)

\* CoreIteration where a failed judge call counts as a failed attempt
CoreIterationJudgeRetried(s, attempt, o, j) ==
    LET evs == Append(s.events, CallEvent(attempt))
    IN  IF o.kind = "ok" /\ ~(JudgeFailed(j) /\ attempt < MAX_RETRIES)
        THEN Left(SuccessResult(j, s.retry_count, evs))
        ELSE IF o.kind = "ok"
        THEN LoopState(s.retry_count + 1,
                       Append(Append(evs, JudgeEvent), SleepEvent(BACKOFF_DELAYS[attempt + 1])))
        ELSE IF should_retry(o) /\ attempt < MAX_RETRIES
        THEN LoopState(s.retry_count + 1,
                       Append(evs, SleepEvent(BACKOFF_DELAYS[attempt + 1])))
        ELSE Left(FailureResult(s.retry_count, evs))

\* core/evaluate.py: the body of "for attempt in range(MAX_RETRIES + 1)"
CoreIteration(s, attempt, o, j) ==
    LET evs == Append(s.events, CallEvent(attempt))
    IN  IF o.kind = "ok"
        THEN Left(SuccessResult(j, s.retry_count, evs))
        ELSE IF should_retry(o) /\ attempt < MAX_RETRIES
        THEN LoopState(s.retry_count + 1,
                       Append(evs, SleepEvent(BACKOFF_DELAYS[attempt + 1])))
        ELSE Left(FailureResult(s.retry_count, evs))

\* the retry loop from iteration attempt on, entered in loop state s
RECURSIVE RetryLoop(_, _, _, _, _)
RetryLoop(i, env, j, attempt, s) ==
    LET after == IF i = "api"
                 THEN ApiIteration(s, attempt, env[attempt + 1], j)
                 ELSE CoreIteration(s, attempt, env[attempt + 1], j)
    IN  IF after.left
        THEN after.result
        ELSE RetryLoop(i, env, j, attempt + 1, after)

\* image_path values of a question: no image, a readable file, a missing file
ImagePaths == {"none", "ok.png", "missing.png"}

\* None when the file cannot be opened
encode_image_to_base64(image_path) ==
    IF image_path = "ok.png" THEN "data" ELSE "none"

\* evaluate_question without the test of the encoded image
evaluate_questionNoImageCheck(i, image_path, env, j) ==
    IF i = "api"
    THEN RetryLoop("api", env, j, 0, LoopState(0, <<>>))
    ELSE RetryLoop("core", env, j, 0, LoopState(0, <<>>))

evaluate_question(i, image_path, env, j) ==
    IF i = "api"
    THEN RetryLoop("api", env, j, 0, LoopState(0, <<>>))
    ELSE IF image_path # "none" /\ encode_image_to_base64(image_path) = "none"
    THEN ImageFailureResult
    ELSE RetryLoop("core", env, j, 0, LoopState(0, <<>>))


\* .raised of every result an evaluate_question implementation can produce
RaisesOf(i) ==
    {evaluate_question(i, img, env, j).raised :
        img \in ImagePaths, env \in CallEnvs, j \in JudgeOutcomes}

CoreRaises == RaisesOf("core")
ApiRaises == RaisesOf("api")

EvaluationRaises(i) == IF i = "core" THEN CoreRaises ELSE ApiRaises

(***************************************************************************)
(* Part 2: the two-level thread-pool harness                                *)
(***************************************************************************)

\* ThreadPoolExecutor(max_workers=3) over the models
MODEL_WORKERS == 3

\* ThreadPoolExecutor(max_workers=5) over one model's questions
QUESTION_WORKERS == 5

\* largest model list, largest dataset and largest models x questions product
NumModels == 4
NumQuestions == 6
MaxTasks == 6

\* the harness inputs explored: (number of models, number of questions)
Configs ==
    {c \in (1..NumModels) \X (1..NumQuestions) : c[1] * c[2] <= MaxTasks}

AllModels == 1..NumModels

\* a float: the double nearest to tenths / (10 * over), plus error * 2^-56
Float(tenths, over, error) == [tenths |-> tenths, over |-> over, error |-> error]

\* the score the judge gives question q, in tenths: 0.1, 0.2, 0.3, 0.1, ...
ScoreOf(q) == ((q - 1) % 3) + 1

\* x + s / 10 in IEEE-754 double arithmetic, x = Float(tenths, 1, error):
\* <<tenths, error, s, error of the sum>>
DoubleSums ==
    {
     <<0, 0, 1, 0>>, <<0, 0, 2, 0>>, <<0, 0, 3, 0>>, <<1, 0, 1, 0>>,
     <<1, 0, 2, 4>>, <<1, 0, 3, 0>>, <<2, 0, 1, 4>>, <<2, 0, 2, 0>>,
     <<2, 0, 3, 0>>, <<3, 0, 1, 0>>, <<3, 0, 2, 0>>, <<3, 0, 3, 0>>,
     <<3, 4, 1, 0>>, <<3, 4, 2, 0>>, <<3, 4, 3, 8>>, <<4, 0, 1, 0>>,
     <<4, 0, 2, 8>>, <<4, 0, 3, 0>>, <<5, 0, 1, 0>>, <<5, 0, 2, 0>>,
     <<5, 0, 3, 0>>, <<6, 0, 1, 0>>, <<6, 0, 2, 0>>, <<6, 0, 3, -8>>,
     <<6, 8, 1, 8>>, <<6, 8, 2, 0>>, <<6, 8, 3, 8>>, <<7, 0, 1, -8>>,
     <<7, 0, 2, -8>>, <<7, 0, 3, 0>>, <<7, 8, 1, 0>>, <<7, 8, 2, 8>>,
     <<7, 8, 3, 0>>, <<8, -8, 1, -8>>, <<8, -8, 2, 0>>, <<8, -8, 3, -16>>,
     <<8, 0, 1, 0>>, <<8, 0, 2, 0>>, <<8, 0, 3, 0>>, <<9, -8, 1, -8>>,
     <<9, -8, 2, -16>>, <<9, -8, 3, 0>>, <<9, 0, 1, 0>>, <<9, 0, 2, 0>>,
     <<9, 0, 3, 0>>, <<9, 8, 1, 16>>, <<9, 8, 2, 0>>, <<9, 8, 3, 16>>,
     <<10, -8, 1, -16>>, <<10, -8, 2, 0>>, <<10, -8, 3, -16>>, <<10, 0, 1, 0>>,
     <<10, 0, 2, 0>>, <<10, 0, 3, 0>>, <<10, 16, 1, 16>>, <<10, 16, 2, 16>>,
     <<10, 16, 3, 16>>, <<11, -16, 1, 0>>, <<11, -16, 2, -16>>, <<11, -16, 3, 0>>,
     <<11, 0, 1, 16>>, <<11, 0, 2, 0>>, <<11, 0, 3, 16>>, <<11, 16, 1, 32>>,
     <<11, 16, 2, 16>>, <<11, 16, 3, 32>>, <<12, 0, 1, 0>>, <<12, 0, 2, 0>>,
     <<12, 0, 3, 0>>, <<12, 16, 1, 16>>, <<12, 16, 2, 16>>, <<12, 16, 3, 16>>,
     <<12, 32, 3, 32>>, <<13, -16, 1, 0>>, <<13, -16, 2, -16>>, <<13, 0, 1, 16>>,
     <<13, 0, 2, 0>>, <<13, 16, 1, 32>>, <<13, 16, 2, 16>>, <<14, 0, 1, 0>>,
     <<14, 16, 1, 16>>, <<14, 32, 1, 32>>
    }

\* x / n in IEEE-754 double arithmetic, x = Float(tenths, 1, error):
\* <<tenths, error, n, error of the quotient>>
DoubleQuotients ==
    {
     <<1, 0, 1, 0>>, <<3, 4, 2, 2>>, <<6, 0, 3, -2>>, <<6, 8, 3, 2>>,
     <<7, 0, 4, 0>>, <<7, 8, 4, 2>>, <<9, -8, 5, 0>>, <<9, 0, 5, 0>>,
     <<9, 8, 5, 2>>, <<12, 0, 6, -2>>, <<12, 16, 6, 2>>, <<13, -16, 7, -2>>,
     <<13, 0, 7, 0>>, <<13, 16, 7, 2>>, <<15, -16, 8, -2>>, <<15, 0, 8, 0>>,
     <<15, 16, 8, 2>>, <<15, 32, 8, 4>>
    }

float_add(x, s) ==
    LET row == CHOOSE r \in DoubleSums : r[1] = x.tenths /\ r[2] = x.error /\ r[3] = s
    IN  Float(x.tenths + s, 1, row[4])

float_div(x, n) ==
    LET row == CHOOSE r \in DoubleQuotients : r[1] = x.tenths /\ r[2] = x.error /\ r[3] = n
    IN  Float(x.tenths, n, row[4])

\* sum(scores): the scores are added from left to right
RECURSIVE float_sum(_)
float_sum(scores) ==
    IF scores = <<>> THEN Float(0, 1, 0)
    ELSE float_add(float_sum(SubSeq(scores, 1, Len(scores) - 1)), scores[Len(scores)])

NoRow == [accuracy |-> Float(0, 1, 0), total_questions |-> -1]

\* the aggregates save_run stores for the results of a model, given as the
\* questions in the order of the list
RunRow(model_results) ==
    LET total_questions == Len(model_results)
        scores == [n \in DOMAIN model_results |-> ScoreOf(model_results[n])]
    IN  [accuracy |-> IF total_questions > 0
                      THEN float_div(float_sum(scores), total_questions)
                      ELSE Float(0, 1, 0),
         total_questions |-> total_questions]

HarnessIdle ==
    /\ impl = "api"
    /\ models = {}
    /\ questions = {}
    /\ hpc = "idle"
    /\ model_futures = [m \in AllModels |-> "pending"]
    /\ submitted = [m \in AllModels |-> 0]
    /\ pool_failed = [m \in AllModels |-> FALSE]
    /\ next_q = [m \in AllModels |-> 0]
    /\ inflight = [m \in AllModels |-> {}]
    /\ question_raised = [m \in AllModels |-> {}]
    /\ results = [m \in AllModels |-> <<>>]
    /\ collected = {}
    /\ all_results = <<>>
    /\ save_calls = <<>>
    /\ db_runs = {}
    /\ db_rows = [m \in AllModels |-> NoRow]
    /\ saving = {}

\* the state once every model has been submitted to model_executor
HarnessInit ==
    /\ impl \in Impls
    /\ \E c \in Configs : models = 1..c[1] /\ questions = 1..c[2]
    /\ hpc = "collecting"
    /\ model_futures = [m \in AllModels |-> "pending"]
    /\ submitted = [m \in AllModels |-> 0]
    /\ pool_failed = [m \in AllModels |-> FALSE]
    /\ next_q = [m \in AllModels |-> 0]
    /\ inflight = [m \in AllModels |-> {}]
    /\ question_raised = [m \in AllModels |-> {}]
    /\ results = [m \in AllModels |-> <<>>]
    /\ collected = {}
    /\ all_results = <<>>
    /\ save_calls = <<>>
    /\ db_runs = {}
    /\ db_rows = [m \in AllModels |-> NoRow]
    /\ saving = {}

RunningModels == {m \in models : model_futures[m] = "running"}

\* a worker of model_executor takes the oldest pending model and runs
\* evaluate_model_parallel up to the end of its submit loop; the submit loop
\* either submits every question or raises after k of them
StartModel(m) ==
    /\ hpc = "collecting"
    /\ m \in models
    /\ model_futures[m] = "pending"
    /\ \A k \in models : k < m => model_futures[k] # "pending"
    /\ Cardinality(RunningModels) < MODEL_WORKERS
    /\ model_futures' = [model_futures EXCEPT ![m] = "running"]
    /\ \/ /\ submitted' = [submitted EXCEPT ![m] = Cardinality(questions)]
          /\ UNCHANGED pool_failed
       \/ \E k \in 0..(Cardinality(questions) - 1) :
            /\ submitted' = [submitted EXCEPT ![m] = k]
            /\ pool_failed' = [pool_failed EXCEPT ![m] = TRUE]
    /\ UNCHANGED <<impl, models, questions, hpc, next_q, inflight, question_raised,
                   results, collected, all_results, save_calls, db_runs, db_rows, saving>>
    /\ UNCHANGED <<evars, dvars, xvars>>

\* StartQuestion on an inner executor that does not bound its workers
StartQuestionUnbounded(m) ==
    /\ m \in models
    /\ model_futures[m] = "running"
    /\ next_q[m] < submitted[m]
    /\ next_q' = [next_q EXCEPT ![m] = next_q[m] + 1]
    /\ inflight' = [inflight EXCEPT ![m] = inflight[m] \cup {next_q[m] + 1}]
    /\ UNCHANGED <<impl, models, questions, hpc, model_futures, submitted, pool_failed,
                   question_raised, results, collected, all_results, save_calls, db_runs, db_rows, saving>>
    /\ UNCHANGED <<evars, dvars, xvars>>

\* StartQuestion on an inner executor whose workers take one question each
\* and then stop
StartQuestionNoReuse(m) ==
    /\ m \in models
    /\ model_futures[m] = "running"
    /\ next_q[m] < submitted[m]
    /\ next_q[m] < QUESTION_WORKERS
    /\ next_q' = [next_q EXCEPT ![m] = next_q[m] + 1]
    /\ inflight' = [inflight EXCEPT ![m] = inflight[m] \cup {next_q[m] + 1}]
    /\ UNCHANGED <<impl, models, questions, hpc, model_futures, submitted, pool_failed,
                   question_raised, results, collected, all_results, save_calls, db_runs,
                   db_rows, saving>>
    /\ UNCHANGED <<evars, dvars, xvars>>

\* a worker of the model's inner executor takes the oldest queued question
StartQuestion(m) ==
    /\ m \in models
    /\ model_futures[m] = "running"
    /\ next_q[m] < submitted[m]
    /\ Cardinality(inflight[m]) < QUESTION_WORKERS
    /\ next_q' = [next_q EXCEPT ![m] = next_q[m] + 1]
    /\ inflight' = [inflight EXCEPT ![m] = inflight[m] \cup {next_q[m] + 1}]
    /\ UNCHANGED <<impl, models, questions, hpc, model_futures, submitted, pool_failed,
                   question_raised, results, collected, all_results, save_calls, db_runs, db_rows, saving>>
    /\ UNCHANGED <<evars, dvars, xvars>>

\* evaluate_question returns or raises in its worker; while the model's thread
\* is in its as_completed loop, results.append(future.result()) follows
FinishQuestion(m, q) ==
    /\ m \in models
    /\ q \in inflight[m]
    /\ inflight' = [inflight EXCEPT ![m] = inflight[m] \ {q}]
    /\ \E raised \in EvaluationRaises(impl) :
         IF raised
         THEN /\ question_raised' = [question_raised EXCEPT ![m] = question_raised[m] \cup {q}]
              /\ UNCHANGED results
         ELSE /\ results' = IF pool_failed[m] \/ question_raised[m] # {}
                            THEN results
                            ELSE [results EXCEPT ![m] = Append(results[m], q)]
              /\ UNCHANGED question_raised
    /\ UNCHANGED <<impl, models, questions, hpc, model_futures, submitted, pool_failed,
                   next_q, collected, all_results, save_calls, db_runs, db_rows, saving>>
    /\ UNCHANGED <<evars, dvars, xvars>>

\* the with block of evaluate_model_parallel ends once every submitted
\* question is over; the function then returns its results or re-raises
ReturnModel(m) ==
    /\ m \in models
    /\ model_futures[m] = "running"
    /\ next_q[m] = submitted[m]
    /\ inflight[m] = {}
    /\ model_futures' = [model_futures EXCEPT ![m] =
                            IF pool_failed[m] \/ question_raised[m] # {}
                            THEN "failed" ELSE "finished"]
    /\ UNCHANGED <<impl, models, questions, hpc, submitted, pool_failed, next_q, inflight,
                   question_raised, results, collected, all_results, save_calls, db_runs, db_rows, saving>>
    /\ UNCHANGED <<evars, dvars, xvars>>

\* an entry of all_results
Summary(m, error, model_results) ==
    [model |-> m, error |-> error, results |-> model_results]

\* CollectFinished with save_run called before the append: the summary is
\* not in all_results while save_run runs, and a save_run that raises skips
\* the append
CollectFinishedSaveFirst(m) ==
    /\ hpc = "collecting"
    /\ saving = {}
    /\ m \in models \ collected
    /\ model_futures[m] = "finished"
    /\ collected' = collected \cup {m}
    /\ save_calls' = Append(save_calls, m)
    /\ saving' = saving \cup {m}
    /\ UNCHANGED <<impl, models, questions, hpc, model_futures, submitted, pool_failed,
                   next_q, inflight, question_raised, results, all_results,
                   db_runs, db_rows>>
    /\ UNCHANGED <<evars, dvars, xvars>>

\* CollectFinished that hands save_run to another thread and goes on with the
\* loop
CollectFinishedAsync(m) ==
    /\ hpc = "collecting"
    /\ m \in models \ collected
    /\ model_futures[m] = "finished"
    /\ collected' = collected \cup {m}
    /\ all_results' = Append(all_results, Summary(m, FALSE, results[m]))
    /\ save_calls' = Append(save_calls, m)
    /\ saving' = saving \cup {m}
    /\ UNCHANGED <<impl, models, questions, hpc, model_futures, submitted, pool_failed,
                   next_q, inflight, question_raised, results, db_runs, db_rows>>
    /\ UNCHANGED <<evars, dvars, xvars>>

\* one iteration of the as_completed loop of the harness for a model whose
\* future holds a result, up to its call of save_run: the collecting thread
\* appends the summary and enters save_run
CollectFinished(m) ==
    /\ hpc = "collecting"
    /\ saving = {}
    /\ m \in models \ collected
    /\ model_futures[m] = "finished"
    /\ collected' = collected \cup {m}
    /\ all_results' = Append(all_results, Summary(m, FALSE, results[m]))
    /\ save_calls' = Append(save_calls, m)
    /\ saving' = saving \cup {m}
    /\ UNCHANGED <<impl, models, questions, hpc, model_futures, submitted, pool_failed,
                   next_q, inflight, question_raised, results, db_runs, db_rows>>
    /\ UNCHANGED <<evars, dvars, xvars>>

\* save_run ends while the workers go on: it commits the run or raises, and
\* the harness catches what it raises
save_run(m) ==
    /\ m \in saving
    /\ saving' = saving \ {m}
    /\ \E committed \in BOOLEAN :
         /\ db_runs' = IF committed THEN db_runs \cup {m} ELSE db_runs
         /\ db_rows' = IF committed
                       THEN [db_rows EXCEPT ![m] = RunRow(results[m])]
                       ELSE db_rows
    /\ UNCHANGED <<impl, models, questions, hpc, model_futures, submitted, pool_failed,
                   next_q, inflight, question_raised, results, collected, all_results,
                   save_calls>>
    /\ UNCHANGED <<evars, dvars, xvars>>

\* CollectFailed without the try around future.result(): the exception leaves
\* the loop and the harness ends with what it has collected
CollectFailedPropagates(m) ==
    /\ hpc = "collecting"
    /\ saving = {}
    /\ m \in models \ collected
    /\ model_futures[m] = "failed"
    /\ hpc' = "done"
    /\ UNCHANGED <<impl, models, questions, model_futures, submitted, pool_failed, next_q,
                   inflight, question_raised, results, collected, all_results,
                   save_calls, db_runs, db_rows, saving>>
    /\ UNCHANGED <<evars, dvars, xvars>>

\* one iteration of the as_completed loop for a model whose future holds an
\* exception: run_evaluation_task appends an error entry, main only prints
CollectFailed(m) ==
    /\ hpc = "collecting"
    /\ saving = {}
    /\ m \in models \ collected
    /\ model_futures[m] = "failed"
    /\ collected' = collected \cup {m}
    /\ all_results' = IF impl = "api"
                      THEN Append(all_results, Summary(m, TRUE, <<>>))
                      ELSE all_results
    /\ UNCHANGED <<impl, models, questions, hpc, model_futures, submitted, pool_failed,
                   next_q, inflight, question_raised, results, save_calls, db_runs, db_rows, saving>>
    /\ UNCHANGED <<evars, dvars, xvars>>

\* the as_completed loop is exhausted: the harness builds its payload
HarnessDone ==
    /\ hpc = "collecting"
    /\ saving = {}
    /\ collected = models
    /\ \A m \in models : model_futures[m] \in {"finished", "failed"}
    /\ hpc' = "done"
    /\ UNCHANGED <<impl, models, questions, model_futures, submitted, pool_failed, next_q,
                   inflight, question_raised, results, collected, all_results,
                   save_calls, db_runs, db_rows, saving>>
    /\ UNCHANGED <<evars, dvars, xvars>>


(***************************************************************************)
(* Part 3: one evaluate_question call against its collaborators             *)
(***************************************************************************)

EvalIdle ==
    /\ eq_impl = "api"
    /\ eq_image_path = "none"
    /\ eq_pc = "idle"
    /\ eq_calls = <<>>
    /\ eq_judge = NoJudge
    /\ eq_result = NoResult

EvalInit ==
    /\ eq_impl \in Impls
    /\ eq_image_path \in ImagePaths
    /\ eq_pc = "ready"
    /\ eq_calls = <<>>
    /\ eq_judge = NoJudge
    /\ eq_result = NoResult

\* the number of model calls, judge calls and the sleeps of a result
Attempts(r) == Cardinality({i \in 1..Len(r.events) : r.events[i].op = "call"})
JudgeCalls(r) == Cardinality({i \in 1..Len(r.events) : r.events[i].op = "judge"})
Sleeps(r) == Cardinality({i \in 1..Len(r.events) : r.events[i].op = "sleep"})

\* one call of evaluate_question: the collaborators answer as env and j say;
\* the state keeps the answers the call consumed
Evaluate ==
    /\ eq_pc = "ready"
    /\ \E env \in CallEnvs, j \in JudgeOutcomes :
         LET r == evaluate_question(eq_impl, eq_image_path, env, j)
         IN  /\ eq_result' = r
             /\ eq_calls' = [i \in 1..Attempts(r) |-> env[i]]
             /\ eq_judge' = IF JudgeCalls(r) > 0 THEN j ELSE NoJudge
    /\ eq_pc' = "done"
    /\ UNCHANGED <<eq_impl, eq_image_path>>
    /\ UNCHANGED <<hvars, dvars, xvars>>

(***************************************************************************)
(* Part 4: run history and drift analysis (core/db.py)                      *)
(***************************************************************************)

\* at most MaxRuns rows over the runs and rag_runs tables
MaxRuns == 3

\* model names, tracked-metric values and thresholds explored (hundredths)
ModelNames == {"gpt-4o", "gpt-4o-mini"}
Metrics == {80, 85, 90}
Thresholds == {5, 10}

NoAnalysis ==
    [table |-> "none", model_name |-> "", threshold |-> 0, latest |-> 0, best |-> 0,
     latest_metric |-> 0, best_metric |-> 0, has_drifted |-> FALSE]

\* the alert channels, in the order send_all_alerts calls them
Channels == <<"webhook", "discord", "email">>

ChannelNames == {Channels[n] : n \in DOMAIN Channels}

\* what a channel does when asked to send: it is not configured (its URL or
\* credentials are unset), its request succeeds, or its request fails (a
\* connection error, an HTTP error status, an SMTP error)
ChannelOutcomes == {"unconfigured", "ok", "error"}

ChannelEnvs == [ChannelNames -> ChannelOutcomes]

NoChannelEnv == [c \in ChannelNames |-> "unconfigured"]

\* no process_run has returned since the last write or analysis
\* run_id = None; run ids start at 1
None == 0

NoReport ==
    [done |-> FALSE, raised |-> FALSE, model |-> "", drift_detected |-> FALSE,
     keys |-> {}, latest_run |-> 0, best_run |-> 0, drift_percentage |-> 0,
     run_id |-> None, env |-> NoChannelEnv, calls |-> <<>>, alerts_sent |-> <<>>]

\* the run ids process_run is called with for a model: None, or the id of
\* one of its runs
RunIds(model_name) ==
    {None} \cup {r.id : r \in {x \in runs : x.model_name = model_name}}

DriftInit ==
    /\ runs = {}
    /\ rag_runs = {}
    /\ clock = 1
    /\ analysis = NoAnalysis
    /\ report = NoReport

\* datetime.utcnow() at a write: later than at the previous write (the clock
\* has microsecond resolution and a write takes longer than that)
Now == {clock + 1}

\* save_run: the row it inserts, with the accuracy it computed
SaveRun(model_name, accuracy) ==
    /\ Cardinality(runs) + Cardinality(rag_runs) < MaxRuns
    /\ \E now \in Now :
         /\ clock' = now
         /\ runs' = runs \cup {[id |-> Cardinality(runs) + 1, model_name |-> model_name,
                                timestamp |-> now, metric |-> accuracy]}
    /\ analysis' = NoAnalysis
    /\ report' = NoReport
    /\ UNCHANGED rag_runs
    /\ UNCHANGED <<hvars, evars, xvars>>

\* save_rag_run: the row it inserts, with the avg_recall it computed
SaveRagRun(model_name, avg_recall) ==
    /\ Cardinality(runs) + Cardinality(rag_runs) < MaxRuns
    /\ \E now \in Now :
         /\ clock' = now
         /\ rag_runs' = rag_runs \cup {[id |-> Cardinality(rag_runs) + 1,
                                        model_name |-> model_name,
                                        timestamp |-> now, metric |-> avg_recall]}
    /\ analysis' = NoAnalysis
    /\ report' = NoReport
    /\ UNCHANGED runs
    /\ UNCHANGED <<hvars, evars, xvars>>

\* RunsOf without the filter on model_name
RunsOfAnyModel(table, model_name) == table

\* the rows of a model
RunsOf(table, model_name) == {r \in table : r.model_name = model_name}

\* the rows that order_by(timestamp.desc()) may put first: the order among
\* rows of equal timestamp is the database's choice
LatestCandidates(rows) ==
    {r \in rows : \A o \in rows : o.timestamp <= r.timestamp}

\* BestCandidates over the rows older than the latest one only
BestCandidatesEarlierOnly(rows, latest_run) ==
    LET earlier == IF rows = {latest_run} THEN rows ELSE rows \ {latest_run}
        top == {r \in earlier : \A o \in earlier : o.metric <= r.metric}
    IN  {r \in top : \A o \in top : o.timestamp <= r.timestamp}

\* max(runs, key=metric) returns the first row of the list with the greatest
\* metric: the latest row if it has it, else a most recent row among those
BestCandidates(rows, latest_run) ==
    LET top == {r \in rows : \A o \in rows : o.metric <= r.metric}
    IN  IF latest_run \in top
        THEN {latest_run}
        ELSE {r \in top : \A o \in top : o.timestamp <= r.timestamp}

\* HasDrifted with an inclusive comparison
HasDriftedInclusive(best_metric, latest_metric, threshold) ==
    best_metric - latest_metric >= threshold

\* has_drifted = drop > threshold
HasDrifted(best_metric, latest_metric, threshold) ==
    best_metric - latest_metric > threshold

\* the tuple (latest_run, best_run, has_drifted) of a drift analysis
DriftAnalysis(table, rows, model_name, threshold) ==
    IF rows = {}
    THEN {[NoAnalysis EXCEPT !.table = table, !.model_name = model_name,
                             !.threshold = threshold]}
    ELSE {[table |-> table, model_name |-> model_name, threshold |-> threshold,
           latest |-> l.id, best |-> b.id,
           latest_metric |-> l.metric, best_metric |-> b.metric,
           has_drifted |-> HasDrifted(b.metric, l.metric, threshold)] :
            <<l, b>> \in {p \in rows \X rows :
                            /\ p[1] \in LatestCandidates(rows)
                            /\ p[2] \in BestCandidates(rows, p[1])}}

get_drift_analysis(model_name, threshold) ==
    /\ analysis' \in DriftAnalysis("runs", RunsOf(runs, model_name), model_name, threshold)
    /\ report' = NoReport
    /\ UNCHANGED <<runs, rag_runs, clock>>
    /\ UNCHANGED <<hvars, evars, xvars>>

get_rag_drift_analysis(model_name, threshold) ==
    /\ analysis' \in DriftAnalysis("rag_runs", RunsOf(rag_runs, model_name), model_name, threshold)
    /\ report' = NoReport
    /\ UNCHANGED <<runs, rag_runs, clock>>
    /\ UNCHANGED <<hvars, evars, xvars>>

\* check_drift without its "if not latest_run" guard: latest_run.id raises
\* on None
check_driftNoGuard(a, run_id) ==
    [raised |-> a.latest = 0, model |-> a.model_name, drift_detected |-> a.has_drifted,
     keys |-> {"model", "drift_detected", "latest_run", "best_run",
               "drift_percentage", "threshold_percent", "timestamp"},
     latest_run |-> a.latest, best_run |-> a.best,
     drift_percentage |-> a.best_metric - a.latest_metric]

\* DriftDetector.check_drift: the payload built from the tuple a that
\* get_drift_analysis returned (hundredths of accuracy are percentage points);
\* the body never reads run_id
check_drift(a, run_id) ==
    IF a.latest = 0
    THEN [raised |-> FALSE, model |-> a.model_name, drift_detected |-> FALSE,
          keys |-> {"model", "drift_detected", "error"},
          latest_run |-> 0, best_run |-> 0, drift_percentage |-> 0]
    ELSE [raised |-> FALSE, model |-> a.model_name, drift_detected |-> a.has_drifted,
          keys |-> {"model", "drift_detected", "latest_run", "best_run",
                    "drift_percentage", "threshold_percent", "timestamp"},
          latest_run |-> a.latest, best_run |-> a.best,
          drift_percentage |-> a.best_metric - a.latest_metric]

\* what one send_* method does and returns when its channel does o
SendOutcome(o) ==
    [raised |-> FALSE, value |-> o = "ok"]

\* send_generic_webhook without its try/except: a failed request raises
send_generic_webhookNoTry(o) ==
    [raised |-> o = "error", value |-> o = "ok"]

send_generic_webhook(o) == SendOutcome(o)

send_discord_alert(o) == SendOutcome(o)

send_email_alert(o) == SendOutcome(o)

Send(channel, o) ==
    IF channel = "webhook" THEN send_generic_webhook(o)
    ELSE IF channel = "discord" THEN send_discord_alert(o)
    ELSE send_email_alert(o)

\* the evaluation of the dict display of send_all_alerts from entry n on:
\* acc holds the calls made and the values so far; an exception leaves it
RECURSIVE SendFrom(_, _, _)
SendFrom(n, env, acc) ==
    IF n > Len(Channels)
    THEN acc
    ELSE LET c == Channels[n]
             sent == Send(c, env[c])
             calls == Append(acc.calls, c)
         IN  IF sent.raised
             THEN [raised |-> TRUE, calls |-> calls, results |-> <<>>]
             ELSE SendFrom(n + 1, env,
                           [raised |-> FALSE, calls |-> calls,
                            results |-> Append(acc.results, <<c, sent.value>>)])

\* send_all_alerts: results lists the (channel, value) entries of the dict
send_all_alerts(env) ==
    SendFrom(1, env, [raised |-> FALSE, calls |-> <<>>, results |-> <<>>])

\* the value process_run returns for payload p, with the sends made for it
Report(p, run_id, env, sent) ==
    [done |-> TRUE, raised |-> p.raised \/ sent.raised, model |-> p.model,
     drift_detected |-> p.drift_detected, keys |-> p.keys \cup {"alerts_sent"},
     latest_run |-> p.latest_run, best_run |-> p.best_run,
     drift_percentage |-> p.drift_percentage, run_id |-> run_id,
     env |-> env, calls |-> sent.calls, alerts_sent |-> sent.results]

NoSends == [raised |-> FALSE, calls |-> <<>>, results |-> <<>>]

\* process_run that sends the alerts whatever the verdict
process_runAlwaysAlerts(model_name, run_id, threshold) ==
    /\ \E a \in DriftAnalysis("runs", RunsOf(runs, model_name), model_name, threshold) :
         /\ analysis' = a
         /\ LET p == check_drift(a, run_id)
            IN  \E env \in ChannelEnvs : report' = Report(p, run_id, env, send_all_alerts(env))
    /\ UNCHANGED <<runs, rag_runs, clock>>
    /\ UNCHANGED <<hvars, evars, xvars>>

\* DriftDetector(threshold).process_run(model_name, run_id): check_drift, then the
\* alerts if the payload says drift_detected
process_run(model_name, run_id, threshold) ==
    /\ \E a \in DriftAnalysis("runs", RunsOf(runs, model_name), model_name, threshold) :
         /\ analysis' = a
         /\ LET p == check_drift(a, run_id)
            IN  IF p.raised
                THEN report' = Report(p, run_id, NoChannelEnv, NoSends)
                ELSE IF p.drift_detected
                THEN \E env \in ChannelEnvs : report' = Report(p, run_id, env, send_all_alerts(env))
                ELSE report' = Report(p, run_id, NoChannelEnv, NoSends)
    /\ UNCHANGED <<runs, rag_runs, clock>>
    /\ UNCHANGED <<hvars, evars, xvars>>

DriftIdle ==
    /\ runs = {}
    /\ rag_runs = {}
    /\ clock = 0
    /\ analysis = NoAnalysis
    /\ report = NoReport

(***************************************************************************)
(* Part 5: the retrieval metrics (core/retrieval.py)                        *)
(***************************************************************************)

\* largest corpus and largest top_k of a metrics computation
MaxIds == 6
MaxTopK == 5

\* largest chunk id in relevant_chunk_ids
MaxRelevant == 3

\* the elements of a list, as set() builds them
SetOf(seq) == {seq[n] : n \in DOMAIN seq}

Least(S) == CHOOSE x \in S : \A y \in S : x <= y
Greatest(S) == CHOOSE x \in S : \A y \in S : y <= x

\* a quotient of two floats, kept exact
Ratio(num, den) == [num |-> num, den |-> den]

Zero == Ratio(0, 1)

\* round(x, 4) in ten-thousandths; a quotient whose reduced denominator is
\* below 32 is never half-way between two of them
Round4(x) == (20000 * x.num + x.den) \div (2 * x.den)

NoMetrics ==
    [precision_at_k |-> 0, recall_at_k |-> 0, f1_at_k |-> 0, mrr |-> 0,
     retrieved_chunk_ids |-> <<>>, true_positives |-> 0, total_relevant |-> 0]

\* RetrievalMetrics whose rank loop has no break: the last hit sets mrr
RetrievalMetricsNoBreak(retrieved_ids, relevant_chunk_ids, top_k) ==
    LET relevant_set == SetOf(relevant_chunk_ids)
        retrieved_set == SetOf(retrieved_ids)
        tp == Cardinality(relevant_set \cap retrieved_set)
        precision == IF top_k > 0 THEN Ratio(tp, top_k) ELSE Zero
        recall == IF Cardinality(relevant_set) > 0
                  THEN Ratio(tp, Cardinality(relevant_set)) ELSE Zero
        sum == Ratio(precision.num * recall.den + recall.num * precision.den,
                     precision.den * recall.den)
        f1 == IF sum.num > 0
              THEN Ratio(2 * precision.num * recall.num * sum.den,
                         precision.den * recall.den * sum.num)
              ELSE Zero
        hits == {rank \in DOMAIN retrieved_ids : retrieved_ids[rank] \in relevant_set}
        mrr == IF hits = {} THEN Zero ELSE Ratio(1, Greatest(hits))
    IN  [precision_at_k |-> Round4(precision), recall_at_k |-> Round4(recall),
         f1_at_k |-> Round4(f1), mrr |-> Round4(mrr),
         retrieved_chunk_ids |-> retrieved_ids, true_positives |-> tp,
         total_relevant |-> Cardinality(relevant_set)]

\* RetrievalMetrics that counts the true positives over the list of relevant
\* ids, a repeated id counting twice
RetrievalMetricsNoSet(retrieved_ids, relevant_chunk_ids, top_k) ==
    LET relevant_set == SetOf(relevant_chunk_ids)
        retrieved_set == SetOf(retrieved_ids)
        tp == Cardinality({n \in DOMAIN relevant_chunk_ids :
                              relevant_chunk_ids[n] \in retrieved_set})
        precision == IF top_k > 0 THEN Ratio(tp, top_k) ELSE Zero
        recall == IF Cardinality(relevant_set) > 0
                  THEN Ratio(tp, Cardinality(relevant_set)) ELSE Zero
        sum == Ratio(precision.num * recall.den + recall.num * precision.den,
                     precision.den * recall.den)
        f1 == IF sum.num > 0
              THEN Ratio(2 * precision.num * recall.num * sum.den,
                         precision.den * recall.den * sum.num)
              ELSE Zero
        hits == {rank \in DOMAIN retrieved_ids : retrieved_ids[rank] \in relevant_set}
        mrr == IF hits = {} THEN Zero ELSE Ratio(1, Least(hits))
    IN  [precision_at_k |-> Round4(precision), recall_at_k |-> Round4(recall),
         f1_at_k |-> Round4(f1), mrr |-> Round4(mrr),
         retrieved_chunk_ids |-> retrieved_ids, true_positives |-> tp,
         total_relevant |-> Cardinality(relevant_set)]

\* evaluate_retrieval after its call of retrieve: the metrics of the
\* retrieved ids against the relevant ids
RetrievalMetrics(retrieved_ids, relevant_chunk_ids, top_k) ==
    LET relevant_set == SetOf(relevant_chunk_ids)
        retrieved_set == SetOf(retrieved_ids)
        tp == Cardinality(relevant_set \cap retrieved_set)
        precision == IF top_k > 0 THEN Ratio(tp, top_k) ELSE Zero
        recall == IF Cardinality(relevant_set) > 0
                  THEN Ratio(tp, Cardinality(relevant_set)) ELSE Zero
        sum == Ratio(precision.num * recall.den + recall.num * precision.den,
                     precision.den * recall.den)
        f1 == IF sum.num > 0
              THEN Ratio(2 * precision.num * recall.num * sum.den,
                         precision.den * recall.den * sum.num)
              ELSE Zero
        hits == {rank \in DOMAIN retrieved_ids : retrieved_ids[rank] \in relevant_set}
        mrr == IF hits = {} THEN Zero ELSE Ratio(1, Least(hits))
    IN  [precision_at_k |-> Round4(precision), recall_at_k |-> Round4(recall),
         f1_at_k |-> Round4(f1), mrr |-> Round4(mrr),
         retrieved_chunk_ids |-> retrieved_ids, true_positives |-> tp,
         total_relevant |-> Cardinality(relevant_set)]

\* the rankings retrieve can return for top_k over a corpus of n documents
\* with chunk ids 1..n: min(top_k, n) distinct ids
Rankings(n, top_k) ==
    LET len == IF top_k < n THEN top_k ELSE n
    IN  {r \in [1..len -> 1..n] : \A a, b \in 1..len : a # b => r[a] # r[b]}

\* the ids of S in ascending order
RECURSIVE Ascending(_)
Ascending(S) == IF S = {} THEN <<>> ELSE <<Least(S)>> \o Ascending(S \ {Least(S)})

\* the lists relevant_chunk_ids the dataset can hold over the chunk ids 1..n:
\* distinct ids, or distinct ids with the first one listed again
RelevantLists(n) ==
    {Ascending(S) : S \in SUBSET (1..n)}
        \cup {Append(Ascending(S), Least(S)) : S \in (SUBSET (1..n)) \ {{}}}

MetricsIdle ==
    /\ m_pc = "idle"
    /\ m_corpus = 0
    /\ m_retrieved = <<>>
    /\ m_relevant = <<>>
    /\ m_top_k = 0
    /\ m_metrics = NoMetrics

MetricsInit ==
    /\ m_pc = "ready"
    /\ m_top_k \in 1..MaxTopK
    /\ m_corpus \in 1..MaxIds
    /\ m_retrieved \in Rankings(m_corpus, m_top_k)
    /\ m_relevant \in RelevantLists(MaxRelevant)
    /\ m_metrics = NoMetrics

ComputeMetrics ==
    /\ m_pc = "ready"
    /\ m_metrics' = RetrievalMetrics(m_retrieved, m_relevant, m_top_k)
    /\ m_pc' = "done"
    /\ UNCHANGED <<m_corpus, m_retrieved, m_relevant, m_top_k>>
    /\ UNCHANGED <<hvars, evars, dvars, rvars, cvars, gvars>>

(***************************************************************************)
(* Part 6: retrieval by worker threads (core/retrieval.py)                  *)
(***************************************************************************)

\* largest corpus and largest top_k of a retrieval
MaxDocs == 3
MaxRetrieveK == 2

\* the worker threads of the RAG evaluation that share one RetrievalSystem
Threads == {"t1", "t2"}

\* document contents; documents of equal content have equal embeddings
Contents == {"x", "y"}

Queries == {"q1", "q2"}

\* relevant_chunk_ids of the question each query comes from
GroundTruth == [q \in Queries |-> IF q = "q1" THEN <<1>> ELSE <<2, 9>>]

\* a document of the knowledge base has no score and no rank key
Absent == -1000

Document(chunk_id, content) ==
    [chunk_id |-> chunk_id, content |-> content, score |-> Absent, rank |-> 0]

\* an embedding-model name, as its characters; the default model_name
DefaultModel == <<"m">>

\* model.encode of a document content by the model of a name
Embedding(model_name, content) == [by |-> model_name, of |-> content]

\* the cosine similarity, in hundredths, of a query and a document vector
Cosine(query, vec) ==
    IF query = "q1"
    THEN (IF vec.of = "x" THEN 90 ELSE 40)
    ELSE (IF vec.of = "x" THEN 20 ELSE 70)

_cosine_similarity(query, embeddings) ==
    [i \in DOMAIN embeddings |-> Cosine(query, embeddings[i])]

\* np.argsort(similarities): the indices by ascending value; equal values
\* come by ascending or by descending index, as the sort of the build has it
argsort(similarities, ties) ==
    LET Before(i, j) ==
            \/ similarities[i] < similarities[j]
            \/ /\ similarities[i] = similarities[j]
               /\ IF ties = "ascending" THEN i < j ELSE i > j
        Position(i) == 1 + Cardinality({j \in DOMAIN similarities : Before(j, i)})
    IN  [n \in DOMAIN similarities |->
            CHOOSE i \in DOMAIN similarities : Position(i) = n]

\* np.argsort(similarities)[::-1][:top_k]
top_indices(similarities, ties, top_k) ==
    LET order == argsort(similarities, ties)
        len == IF top_k < Len(order) THEN top_k ELSE Len(order)
    IN  [n \in 1..len |-> order[Len(order) + 1 - n]]

\* the results list: a copy of each chosen document with its score and rank
BuildResults(documents, similarities, indices) ==
    [n \in DOMAIN indices |->
        [documents[indices[n]] EXCEPT !.score = similarities[indices[n]], !.rank = n]]

IdleWorker ==
    [pc |-> "idle", op |-> "none", query |-> "none", top_k |-> 0,
     similarities |-> <<>>, results |-> <<>>, metrics |-> NoMetrics]

RetrievalIdle ==
    /\ rs_documents = <<>>
    /\ rs_embeddings = <<>>
    /\ argsort_ties = "ascending"
    /\ workers = [t \in Threads |-> IdleWorker]
    /\ first_results = [q \in Queries |-> <<>>]

\* a RetrievalSystem constructed over a corpus of 1..MaxDocs documents
RetrievalInit ==
    /\ \E n \in 1..MaxDocs : \E contents \in [1..n -> Contents] :
         /\ rs_documents = [i \in 1..n |-> Document(i, contents[i])]
         /\ rs_embeddings = [i \in 1..n |-> Embedding(DefaultModel, contents[i])]
    /\ argsort_ties \in {"ascending", "descending"}
    /\ workers = [t \in Threads |-> IdleWorker]
    /\ first_results = [q \in Queries |-> <<>>]

\* a thread enters retrieve, directly or from evaluate_retrieval, and
\* computes the similarities of its query
retrieve_begin(t, op, query, top_k) ==
    /\ workers[t].pc = "idle"
    /\ workers' = [workers EXCEPT ![t] =
                      [pc |-> "scoring", op |-> op, query |-> query, top_k |-> top_k,
                       similarities |-> _cosine_similarity(query, rs_embeddings),
                       results |-> <<>>, metrics |-> NoMetrics]]
    /\ UNCHANGED <<rs_documents, rs_embeddings, argsort_ties, first_results>>
    /\ UNCHANGED <<hvars, evars, dvars, mvars, cvars, gvars>>

\* the ranking of a found list: chunk ids and scores by rank
RankingOf(found) ==
    [n \in DOMAIN found |-> <<found[n].chunk_id, found[n].score>>]

\* the worker after the rest of retrieve and, for evaluate_retrieval, the
\* metrics of the retrieved ids
Finished(w, found) ==
    [w EXCEPT !.pc = "done",
              !.results = found,
              !.metrics = IF w.op = "evaluate"
                          THEN RetrievalMetrics([n \in DOMAIN found |-> found[n].chunk_id],
                                                GroundTruth[w.query], w.top_k)
                          ELSE NoMetrics]

\* retrieve_finish that annotates self.documents[idx] itself instead of a copy
retrieve_finishNoCopy(t) ==
    /\ workers[t].pc = "scoring"
    /\ LET w == workers[t]
           indices == top_indices(w.similarities, argsort_ties, w.top_k)
           found == BuildResults(rs_documents, w.similarities, indices)
       IN  /\ workers' = [workers EXCEPT ![t] = Finished(w, found)]
           /\ rs_documents' =
                 [i \in DOMAIN rs_documents |->
                    IF \E n \in DOMAIN indices : indices[n] = i
                    THEN found[CHOOSE n \in DOMAIN indices : indices[n] = i]
                    ELSE rs_documents[i]]
           /\ first_results' =
                 IF first_results[w.query] = <<>>
                 THEN [first_results EXCEPT ![w.query] = RankingOf(found)]
                 ELSE first_results
    /\ UNCHANGED <<rs_embeddings, argsort_ties>>
    /\ UNCHANGED <<hvars, evars, dvars, mvars, cvars, gvars>>

\* the thread picks the top indices, builds its list and returns it
retrieve_finish(t) ==
    /\ workers[t].pc = "scoring"
    /\ LET w == workers[t]
           indices == top_indices(w.similarities, argsort_ties, w.top_k)
           found == BuildResults(rs_documents, w.similarities, indices)
       IN  /\ workers' = [workers EXCEPT ![t] = Finished(w, found)]
           /\ first_results' =
                 IF first_results[w.query] = <<>>
                 THEN [first_results EXCEPT ![w.query] = RankingOf(found)]
                 ELSE first_results
    /\ UNCHANGED <<rs_documents, rs_embeddings, argsort_ties>>
    /\ UNCHANGED <<hvars, evars, dvars, mvars, cvars, gvars>>

\* the thread is done with what it got and takes its next question
next_question(t) ==
    /\ workers[t].pc = "done"
    /\ workers' = [workers EXCEPT ![t] = IdleWorker]
    /\ UNCHANGED <<rs_documents, rs_embeddings, argsort_ties, first_results>>
    /\ UNCHANGED <<hvars, evars, dvars, mvars, cvars, gvars>>

(***************************************************************************)
(* Part 7: the embedding cache (core/retrieval.py)                          *)
(***************************************************************************)

\* the embedding-model names a RetrievalSystem is constructed with
EmbeddingModels == {<<"a", "/", "b">>, <<"a", "_", "b">>, DefaultModel}

\* model_name.replace('/', '_')
safe_model_name(model_name) ==
    [i \in DOMAIN model_name |-> IF model_name[i] = "/" THEN "_" ELSE model_name[i]]

\* cache_dir / f"embeddings_{safe_model_name}.pkl", for the one cache_dir
_get_cache_path(model_name) == safe_model_name(model_name)

CachePaths == {_get_cache_path(m) : m \in EmbeddingModels}

\* cache_path.exists() is false
NoFile == <<[by |-> <<>>, of |-> "none"]>>

\* self.model.encode(texts) over the documents
EncodeCorpus(model_name, documents) ==
    [i \in DOMAIN documents |-> Embedding(model_name, documents[i].content)]

NoSystem ==
    [constructed |-> FALSE, model_name |-> <<>>, documents |-> <<>>, embeddings |-> <<>>,
     cache_existed |-> FALSE, cached_len |-> 0, encoded |-> FALSE, written |-> FALSE]

CacheIdle ==
    /\ kb_documents = <<>>
    /\ cache_files = [path \in CachePaths |-> NoFile]
    /\ system = NoSystem

\* a knowledge base of 1..MaxDocs documents and an empty cache directory
CacheInit ==
    /\ \E n \in 1..MaxDocs : \E contents \in [1..n -> Contents] :
         kb_documents = [i \in 1..n |-> Document(i, contents[i])]
    /\ cache_files = [path \in CachePaths |-> NoFile]
    /\ system = NoSystem

\* _load_or_create_embeddings: the embeddings returned, the cache files
\* after it, and what it did
_load_or_create_embeddings(model_name, documents, files) ==
    LET cache_path == _get_cache_path(model_name)
        cached_data == files[cache_path]
        existed == cached_data # NoFile
        embeddings == EncodeCorpus(model_name, documents)
    IN  IF existed /\ Len(cached_data) = Len(documents)
        THEN [embeddings |-> cached_data, files |-> files, cache_existed |-> TRUE,
              cached_len |-> Len(cached_data), encoded |-> FALSE, written |-> FALSE]
        ELSE [embeddings |-> embeddings,
              files |-> [files EXCEPT ![cache_path] = embeddings],
              cache_existed |-> existed,
              cached_len |-> IF existed THEN Len(cached_data) ELSE 0,
              encoded |-> TRUE, written |-> TRUE]

\* RetrievalSystem(model_name=model_name) over the live knowledge base
RetrievalSystem(model_name) ==
    /\ LET documents == kb_documents
           loaded == _load_or_create_embeddings(model_name, documents, cache_files)
       IN  /\ cache_files' = loaded.files
           /\ system' = [constructed |-> TRUE, model_name |-> model_name,
                         documents |-> documents, embeddings |-> loaded.embeddings,
                         cache_existed |-> loaded.cache_existed,
                         cached_len |-> loaded.cached_len,
                         encoded |-> loaded.encoded, written |-> loaded.written]
    /\ UNCHANGED kb_documents
    /\ UNCHANGED <<hvars, evars, dvars, mvars, rvars, gvars>>

\* the knowledge base file gets one more document, after the process that
\* held the last RetrievalSystem has ended
AddDocument(content) ==
    /\ Len(kb_documents) < MaxDocs
    /\ kb_documents' = Append(kb_documents, Document(Len(kb_documents) + 1, content))
    /\ system' = NoSystem
    /\ UNCHANGED cache_files
    /\ UNCHANGED <<hvars, evars, dvars, mvars, rvars, gvars>>

\* the knowledge base file loses its last document
RemoveDocument ==
    /\ Len(kb_documents) > 1
    /\ kb_documents' = SubSeq(kb_documents, 1, Len(kb_documents) - 1)
    /\ system' = NoSystem
    /\ UNCHANGED cache_files
    /\ UNCHANGED <<hvars, evars, dvars, mvars, rvars, gvars>>

\* a document of the knowledge base file gets another content
ReplaceDocument(i, content) ==
    /\ i \in DOMAIN kb_documents
    /\ kb_documents[i].content # content
    /\ kb_documents' = [kb_documents EXCEPT ![i].content = content]
    /\ system' = NoSystem
    /\ UNCHANGED cache_files
    /\ UNCHANGED <<hvars, evars, dvars, mvars, rvars, gvars>>

(***************************************************************************)
(* Part 8: the RAG evaluator (core/rag_evaluate.py)                         *)
(***************************************************************************)

\* most questions of a RAG dataset
NumRagQuestions == 4

\* retrieval_k and max_workers, the defaults of RAGEvaluator
RETRIEVAL_K == 5
RAG_WORKERS == 5

\* the SCORE line of a judge reply: missing, not a number, or a number
ScoreLines ==
    {[kind |-> k, value |-> 0] : k \in {"none", "text"}}
        \cup {[kind |-> "number", value |-> v] : v \in {0, 70}}

\* what chat.completions.create gives a judge: it raises, the message has no
\* content, or the reply has these lines
RagJudgeOutcomes ==
    {[kind |-> k, score_line |-> [kind |-> "none", value |-> 0], reasoning_line |-> FALSE] :
        k \in {"exception", "nocontent"}}
        \cup {[kind |-> "reply", score_line |-> s, reasoning_line |-> r] :
                s \in ScoreLines, r \in BOOLEAN}

\* the loop over the lines of a judge reply
ParseJudgeReply(content) ==
    [score |-> IF content.score_line.kind = "number" THEN content.score_line.value ELSE 0,
     reasoning |-> IF content.reasoning_line THEN "because" ELSE ""]

_judge_answer(answer, o) ==
    IF o.kind = "reply" THEN ParseJudgeReply(o)
    ELSE [score |-> 0, reasoning |-> "Error judging answer"]

_judge_grounding(answer, o) ==
    IF o.kind = "reply" THEN ParseJudgeReply(o)
    ELSE [score |-> 0, reasoning |-> "Error judging grounding"]

\* what chat.completions.create gives _generate_answer
GenerationOutcomes == {"ok", "nocontent", "timeout", "connection", "error"}

\* _generate_answer without its try: a failed call propagates
_generate_answerNoTry(o) ==
    [raised |-> o # "ok", answer |-> "answer"]

_generate_answer(o) ==
    [raised |-> FALSE, answer |-> IF o = "ok" THEN "answer" ELSE "[ERROR]"]

\* what the retriever does for a question: retrieve raises, retrieve raises
\* in evaluate_retrieval, or both return this ranking
RagRetrievals ==
    {[kind |-> k, ranking |-> <<>>] : k \in {"retrieve_raises", "evaluate_raises"}}
        \cup {[kind |-> "ok", ranking |-> r] : r \in Rankings(2, RETRIEVAL_K)}

RagEnvs ==
    [retrieval : RagRetrievals, relevant : {<<1>>, <<3>>}, generation : GenerationOutcomes,
     judge : RagJudgeOutcomes, grounding : RagJudgeOutcomes]

RagEvent(op, answer) == [op |-> op, answer |-> answer]

NoRagResult ==
    [retrieved_chunk_ids |-> <<>>, retrieval_precision |-> 0, retrieval_recall |-> 0,
     retrieval_f1 |-> 0, retrieval_mrr |-> 0, generated_answer |-> "",
     answer_score |-> 0, answer_reasoning |-> "",
     grounding_score |-> 0, grounding_reasoning |-> ""]

RagRaised(events) == [raised |-> TRUE, events |-> events, result |-> NoRagResult]

evaluate_single_question(env) ==
    LET retrieve == RagEvent("retrieve", "")
        evaluate == RagEvent("evaluate_retrieval", "")
        generate == RagEvent("generate", "")
        metrics == RetrievalMetrics(env.retrieval.ranking, env.relevant, RETRIEVAL_K)
        generated == _generate_answer(env.generation)
        judged == _judge_answer(generated.answer, env.judge)
        grounded == _judge_grounding(generated.answer, env.grounding)
    IN  IF env.retrieval.kind = "retrieve_raises" THEN RagRaised(<<retrieve>>)
        ELSE IF env.retrieval.kind = "evaluate_raises" THEN RagRaised(<<retrieve, evaluate>>)
        ELSE IF generated.raised THEN RagRaised(<<retrieve, evaluate, generate>>)
        ELSE [raised |-> FALSE,
              events |-> <<retrieve, evaluate, generate,
                           RagEvent("judge_answer", generated.answer),
                           RagEvent("judge_grounding", generated.answer)>>,
              result |->
                [retrieved_chunk_ids |-> metrics.retrieved_chunk_ids,
                 retrieval_precision |-> metrics.precision_at_k,
                 retrieval_recall |-> metrics.recall_at_k,
                 retrieval_f1 |-> metrics.f1_at_k,
                 retrieval_mrr |-> metrics.mrr,
                 generated_answer |-> generated.answer,
                 answer_score |-> judged.score,
                 answer_reasoning |-> judged.reasoning,
                 grounding_score |-> grounded.score,
                 grounding_reasoning |-> grounded.reasoning]]

NoRagEnv ==
    [retrieval |-> [kind |-> "ok", ranking |-> <<>>], relevant |-> <<>>,
     generation |-> "ok",
     judge |-> [kind |-> "exception", score_line |-> [kind |-> "none", value |-> 0],
                reasoning_line |-> FALSE],
     grounding |-> [kind |-> "exception", score_line |-> [kind |-> "none", value |-> 0],
                    reasoning_line |-> FALSE]]

RagQuestionIdle ==
    /\ rq_pc = "idle"
    /\ rq_env = NoRagEnv
    /\ rq_out = RagRaised(<<>>)

RagQuestionInit ==
    /\ rq_pc = "ready"
    /\ rq_env \in RagEnvs
    /\ rq_out = RagRaised(<<>>)

\* one call of evaluate_single_question
EvaluateSingleQuestion ==
    /\ rq_pc = "ready"
    /\ rq_out' = evaluate_single_question(rq_env)
    /\ rq_pc' = "done"
    /\ UNCHANGED <<rq_env, avars>>
    /\ UNCHANGED <<hvars, evars, dvars, mvars, rvars, cvars>>

\* what evaluate_single_question can do for a question: raise, or return a
\* result with this answer_score
RagOutcomes ==
    {[raised |-> evaluate_single_question(env).raised,
      answer_score |-> evaluate_single_question(env).result.answer_score] : env \in RagEnvs}

NoRagOutcome == [raised |-> FALSE, answer_score |-> 0]

\* the summary of no results is the empty dict
_compute_summary(found) ==
    IF found = <<>> THEN [empty |-> TRUE, total_questions |-> 0]
    ELSE [empty |-> FALSE, total_questions |-> Len(found)]

NoSummary == [empty |-> TRUE, total_questions |-> 0]

RagIdle ==
    /\ ra_parallel = FALSE
    /\ ra_questions = {}
    /\ ra_pc = "idle"
    /\ ra_futures = <<>>
    /\ ra_outcomes = <<>>
    /\ ra_i = 0
    /\ ra_results = <<>>
    /\ ra_summary = NoSummary

\* evaluate_all after the futures were submitted (parallel) or before the
\* loop over the questions (sequential)
RagInit ==
    /\ ra_parallel \in BOOLEAN
    /\ ra_questions \in {1..n : n \in 1..NumRagQuestions}
    /\ ra_pc = "evaluating"
    /\ ra_futures = [q \in ra_questions |-> IF ra_parallel THEN "queued" ELSE "none"]
    /\ ra_outcomes = [q \in ra_questions |-> NoRagOutcome]
    /\ ra_i = 0
    /\ ra_results = <<>>
    /\ ra_summary = NoSummary

RagRunning == {q \in ra_questions : ra_futures[q] = "running"}

\* a worker of the executor takes the oldest queued question
RagStartQuestion(q) ==
    /\ ra_pc = "evaluating"
    /\ ra_parallel
    /\ q \in ra_questions
    /\ ra_futures[q] = "queued"
    /\ \A p \in ra_questions : p < q => ra_futures[p] # "queued"
    /\ Cardinality(RagRunning) < RAG_WORKERS
    /\ ra_futures' = [ra_futures EXCEPT ![q] = "running"]
    /\ UNCHANGED <<ra_parallel, ra_questions, ra_pc, ra_outcomes, ra_i, ra_results,
                   ra_summary, qvars>>
    /\ UNCHANGED <<hvars, evars, dvars, mvars, rvars, cvars>>

\* evaluate_single_question returns or raises in its worker
RagFinishQuestion(q, o) ==
    /\ ra_pc = "evaluating"
    /\ q \in ra_questions
    /\ ra_futures[q] = "running"
    /\ ra_futures' = [ra_futures EXCEPT ![q] = IF o.raised THEN "failed" ELSE "finished"]
    /\ ra_outcomes' = [ra_outcomes EXCEPT ![q] = o]
    /\ UNCHANGED <<ra_parallel, ra_questions, ra_pc, ra_i, ra_results, ra_summary, qvars>>
    /\ UNCHANGED <<hvars, evars, dvars, mvars, rvars, cvars>>

RagRecord(q, o) == [question_id |-> q, answer_score |-> o.answer_score]

\* one iteration of the loop over as_completed(futures)
RagCollect(q) ==
    /\ ra_pc = "evaluating"
    /\ q \in ra_questions
    /\ ra_futures[q] \in {"finished", "failed"}
    /\ ra_results' = IF ra_futures[q] = "finished"
                     THEN Append(ra_results, RagRecord(q, ra_outcomes[q]))
                     ELSE ra_results
    /\ ra_futures' = [ra_futures EXCEPT ![q] = "consumed"]
    /\ UNCHANGED <<ra_parallel, ra_questions, ra_pc, ra_outcomes, ra_i, ra_summary, qvars>>
    /\ UNCHANGED <<hvars, evars, dvars, mvars, rvars, cvars>>

\* one iteration of the sequential loop over self.questions
RagSequentialStep(o) ==
    /\ ra_pc = "evaluating"
    /\ ~ra_parallel
    /\ ra_i + 1 \in ra_questions
    /\ ra_i' = ra_i + 1
    /\ ra_outcomes' = [ra_outcomes EXCEPT ![ra_i + 1] = o]
    /\ IF o.raised
       THEN ra_pc' = "raised" /\ UNCHANGED ra_results
       ELSE ra_results' = Append(ra_results, RagRecord(ra_i + 1, o)) /\ UNCHANGED ra_pc
    /\ UNCHANGED <<ra_parallel, ra_questions, ra_futures, ra_summary, qvars>>
    /\ UNCHANGED <<hvars, evars, dvars, mvars, rvars, cvars>>

\* evaluate_all after its loop: the summary, the saves and the return
RagReturn ==
    /\ ra_pc = "evaluating"
    /\ IF ra_parallel
       THEN \A q \in ra_questions : ra_futures[q] = "consumed"
       ELSE ra_i + 1 \notin ra_questions
    /\ ra_summary' = _compute_summary(ra_results)
    /\ ra_pc' = "returned"
    /\ UNCHANGED <<ra_parallel, ra_questions, ra_futures, ra_outcomes, ra_i, ra_results, qvars>>
    /\ UNCHANGED <<hvars, evars, dvars, mvars, rvars, cvars>>

(***************************************************************************)
(* Specifications                                                           *)
(***************************************************************************)

vars == <<hvars, evars, dvars, xvars>>

\* a harness run
Idle == MetricsIdle /\ RetrievalIdle /\ CacheIdle /\ RagQuestionIdle /\ RagIdle

Init == HarnessInit /\ EvalIdle /\ DriftIdle /\ Idle

Next ==
    \/ \E m \in AllModels : StartModel(m)
    \/ \E m \in AllModels : StartQuestion(m)
    \/ \E m \in AllModels : \E q \in 1..NumQuestions : FinishQuestion(m, q)
    \/ \E m \in AllModels : ReturnModel(m)
    \/ \E m \in AllModels : CollectFinished(m)
    \/ \E m \in AllModels : save_run(m)
    \/ \E m \in AllModels : CollectFailed(m)
    \/ HarnessDone

Spec == Init /\ [][Next]_vars

\* a harness run whose calls all return or fail and whose threads are
\* scheduled: a step that some thread can take is eventually taken; one
\* model more than model_executor has workers makes a model wait
InitFair == Init /\ Cardinality(models) <= MODEL_WORKERS + 1

SpecFair == InitFair /\ [][Next]_vars /\ WF_vars(Next)

\* one evaluate_question call
InitEval == EvalInit /\ HarnessIdle /\ DriftIdle /\ Idle

NextEval == Evaluate

SpecEval == InitEval /\ [][NextEval]_vars

\* the run history and its drift analyses
InitDrift == DriftInit /\ HarnessIdle /\ EvalIdle /\ Idle

NextDrift ==
    \/ \E m \in ModelNames, a \in Metrics : SaveRun(m, a)
    \/ \E m \in ModelNames, a \in Metrics : SaveRagRun(m, a)
    \/ \E m \in ModelNames, t \in Thresholds : get_drift_analysis(m, t)
    \/ \E m \in ModelNames, t \in Thresholds : get_rag_drift_analysis(m, t)
    \/ \E m \in ModelNames, t \in Thresholds : process_run(m, None, t)

SpecDrift == InitDrift /\ [][NextDrift]_vars

\* the run history and a DriftDetector asked about given runs
InitDetector == DriftInit /\ HarnessIdle /\ EvalIdle /\ Idle

NextDetector ==
    \/ \E m \in ModelNames, a \in Metrics : SaveRun(m, a)
    \/ \E m \in ModelNames, t \in Thresholds : \E id \in RunIds(m) : process_run(m, id, t)

SpecDetector == InitDetector /\ [][NextDetector]_vars

\* one metrics computation
InitMetrics ==
    /\ MetricsInit /\ HarnessIdle /\ EvalIdle /\ DriftIdle /\ RetrievalIdle /\ CacheIdle
    /\ RagQuestionIdle /\ RagIdle

NextMetrics == ComputeMetrics

SpecMetrics == InitMetrics /\ [][NextMetrics]_vars

\* retrievals by the worker threads
InitRetrieval ==
    /\ RetrievalInit /\ HarnessIdle /\ EvalIdle /\ DriftIdle /\ MetricsIdle /\ CacheIdle
    /\ RagQuestionIdle /\ RagIdle

NextRetrieval ==
    \/ \E t \in Threads, op \in {"retrieve", "evaluate"}, q \in Queries, k \in 1..MaxRetrieveK :
         retrieve_begin(t, op, q, k)
    \/ \E t \in Threads : retrieve_finish(t)
    \/ \E t \in Threads : next_question(t)

SpecRetrieval == InitRetrieval /\ [][NextRetrieval]_vars

\* initialisations of the RetrievalSystem over a changing knowledge base
InitCache ==
    /\ CacheInit /\ HarnessIdle /\ EvalIdle /\ DriftIdle /\ MetricsIdle /\ RetrievalIdle
    /\ RagQuestionIdle /\ RagIdle

NextCache ==
    \/ \E m \in EmbeddingModels : RetrievalSystem(m)
    \/ \E c \in Contents : AddDocument(c)
    \/ RemoveDocument
    \/ \E i \in 1..MaxDocs, c \in Contents : ReplaceDocument(i, c)

SpecCache == InitCache /\ [][NextCache]_vars

\* one evaluate_single_question call of the RAG evaluator
InitRagQuestion ==
    /\ RagQuestionInit /\ RagIdle /\ HarnessIdle /\ EvalIdle /\ DriftIdle
    /\ MetricsIdle /\ RetrievalIdle /\ CacheIdle

NextRagQuestion == EvaluateSingleQuestion

SpecRagQuestion == InitRagQuestion /\ [][NextRagQuestion]_vars

\* one evaluate_all call of the RAG evaluator
InitRag ==
    /\ RagInit /\ RagQuestionIdle /\ HarnessIdle /\ EvalIdle /\ DriftIdle
    /\ MetricsIdle /\ RetrievalIdle /\ CacheIdle

NextRag ==
    \/ \E q \in 1..NumRagQuestions : RagStartQuestion(q)
    \/ \E q \in 1..NumRagQuestions, o \in RagOutcomes : RagFinishQuestion(q, o)
    \/ \E q \in 1..NumRagQuestions : RagCollect(q)
    \/ \E o \in RagOutcomes : RagSequentialStep(o)
    \/ RagReturn

SpecRag == InitRag /\ [][NextRag]_vars

(***************************************************************************)
(* Properties                                                               *)
(***************************************************************************)

\* the retry count a result reports ("... after {retry_count} retries")
ReportedRetries(r) == r.reasoning.retries

AllTimeouts(calls) ==
    /\ calls # <<>>
    /\ \A n \in DOMAIN calls : calls[n].kind = "timeout"

\* C1: when every model-call attempt fails with a timeout the failure result
\* reports exactly MAX_RETRIES retries, and no result reports more than
\* MAX_RETRIES retries (SpecEval).
C1_RetryCountBounded ==
    eq_pc = "done" =>
        /\ ReportedRetries(eq_result) <= MAX_RETRIES
        /\ AllTimeouts(eq_calls) =>
              /\ eq_result.reasoning.marker = "failed_after"
              /\ ReportedRetries(eq_result) = MAX_RETRIES

\* C2: a first model call that ends in a non-success status or in an exception
\* that is neither a timeout nor a connection error is the only call: no
\* sleep, score 0.0, whatever its text says (SpecEval).
C2_NonTransientNotRetried ==
    (eq_pc = "done" /\ eq_calls # <<>> /\ eq_calls[1].kind \in {"status", "other"}) =>
        /\ Attempts(eq_result) = 1
        /\ Sleeps(eq_result) = 0
        /\ eq_result.score = 0

\* the questions of a result list, as a set
Range(seq) == {seq[n] : n \in DOMAIN seq}

\* seq holds every element of set exactly once
IsPermutationOf(seq, set) ==
    /\ Len(seq) = Cardinality(set)
    /\ Range(seq) = set

\* C3: no evaluate_question call raises, whatever the model call and the judge
\* do, and an evaluate_model_parallel that returned holds exactly one result
\* per submitted question (Spec).
C3_OneResultPerQuestion ==
    /\ CoreRaises = {FALSE}
    /\ ApiRaises = {FALSE}
    /\ \A m \in models :
         /\ question_raised[m] = {}
         /\ Cardinality(Range(results[m])) = Len(results[m])
         /\ model_futures[m] = "finished" => IsPermutationOf(results[m], questions)

\* C3 witness: a model returned the results of more questions than it has
\* workers, in an order that is not the submission order
C3_Witness ==
    \E m \in models :
        /\ model_futures[m] = "finished"
        /\ Cardinality(questions) > QUESTION_WORKERS
        /\ results[m][1] # 1

\* C4: every result of evaluate_question has a score in [0.0, 1.0] (SpecEval).
C4_ScoreInUnitInterval ==
    eq_pc = "done" => (0 <= eq_result.score /\ eq_result.score <= 100)

\* a judge content that is not a JSON object with both keys
MissesRequiredShape(c) ==
    c.form # "object" \/ ~c.has_score \/ ~c.has_reasoning

\* C5: when the judge's reply is not a JSON object with a "score" and a
\* "reasoning" key, the score is 0.0 and the reasoning embeds the raw reply,
\* without an exception (SpecEval).
C5_UnparsableJudgeReply ==
    (eq_pc = "done" /\ eq_judge.kind = "reply" /\ MissesRequiredShape(eq_judge.content)) =>
        /\ ~eq_result.raised
        /\ eq_result.score = 0
        /\ eq_result.reasoning.payload = eq_judge.content

\* the evaluate_question calls in progress over all models
InFlight == {p \in models \X (1..NumQuestions) : p[2] \in inflight[p[1]]}

\* models whose evaluate_model_parallel is over
OverModels == {m \in models : model_futures[m] \in {"finished", "failed"}}

\* C6: at most MODEL_WORKERS models run at a time, each with at most
\* QUESTION_WORKERS questions started and not finished, hence at most 15 calls
\* in flight; a model beyond the first three runs only once an earlier one is
\* over (Spec).
C6_BoundedConcurrency ==
    /\ Cardinality(RunningModels) <= MODEL_WORKERS
    /\ \A m \in models : Cardinality(inflight[m]) <= QUESTION_WORKERS
    /\ \A m \in models : inflight[m] # {} => model_futures[m] = "running"
    /\ Cardinality(InFlight) <= MODEL_WORKERS * QUESTION_WORKERS
    /\ \A m \in models :
         (m > MODEL_WORKERS /\ model_futures[m] # "pending") =>
             Cardinality({k \in OverModels : k < m}) >= m - MODEL_WORKERS

\* C6 witness: three models are evaluating a question each while a fourth
\* model waits for a worker
C6_Witness ==
    /\ Cardinality(RunningModels) = MODEL_WORKERS
    /\ \A m \in RunningModels : inflight[m] # {}
    /\ \E m \in models : model_futures[m] = "pending"

\* the entries of all_results for a model
SummariesOf(m) == {n \in DOMAIN all_results : all_results[n].model = m}

\* C7: at the end of a harness run, every model whose own pool did not fail
\* was evaluated to completion and has one summary with one result per
\* question, whichever models failed and in whatever order (Spec).
C7_FailureIsolation ==
    hpc = "done" =>
        \A m \in models :
            ~pool_failed[m] =>
                /\ model_futures[m] = "finished"
                /\ Cardinality(SummariesOf(m)) = 1
                /\ \A n \in SummariesOf(m) :
                     /\ ~all_results[n].error
                     /\ IsPermutationOf(all_results[n].results, questions)

\* C7 witness: the run is over, a model failed and a model submitted after it
\* has its summary
C7_Witness ==
    /\ hpc = "done"
    /\ \E a, b \in models :
         /\ model_futures[a] = "failed"
         /\ model_futures[b] = "finished"
         /\ a < b
         /\ SummariesOf(b) # {}

\* C8: at the end of a harness run all_results holds exactly one summary per
\* requested model, and the summary of a model that raised has an error
\* annotation and no results; for both harnesses (Spec).
C8_OneSummaryPerModel ==
    hpc = "done" =>
        /\ Len(all_results) = Cardinality(models)
        /\ \A m \in models :
             /\ Cardinality(SummariesOf(m)) = 1
             /\ model_futures[m] = "failed" =>
                  \A n \in SummariesOf(m) :
                      all_results[n].error /\ all_results[n].results = <<>>

\* the number of save_run calls made for a model
SaveCallsFor(m) == Cardinality({n \in DOMAIN save_calls : save_calls[n] = m})

\* C9: a model whose save_run raised keeps its summary, with all its results,
\* in all_results; and at the end of the run save_run was called once for
\* every model that was evaluated, whichever saves raised (Spec).
C9_SaveFailureIsolation ==
    /\ \A m \in models :
         (SaveCallsFor(m) > 0 /\ m \notin db_runs) =>
             \E n \in DOMAIN all_results : all_results[n] = Summary(m, FALSE, results[m])
    /\ hpc = "done" =>
         \A m \in models : model_futures[m] = "finished" => SaveCallsFor(m) = 1

\* C9 witness: the run is over, a save_run raised and a later save_run
\* committed
C9_Witness ==
    /\ hpc = "done"
    /\ \E x, y \in DOMAIN save_calls :
         /\ x < y
         /\ save_calls[x] \notin db_runs
         /\ save_calls[y] \in db_runs

\* the rows the last analysis read
AnalysedRows ==
    IF analysis.table = "runs"
    THEN RunsOf(runs, analysis.model_name)
    ELSE RunsOf(rag_runs, analysis.model_name)

\* the drop of the last analysis: greatest metric of the model's rows minus
\* the metric of the row taken as latest
AnalysedDrop ==
    LET top == CHOOSE x \in {r.metric : r \in AnalysedRows} :
                   \A r \in AnalysedRows : r.metric <= x
        latest == CHOOSE r \in AnalysedRows : r.id = analysis.latest
    IN  top - latest.metric

\* C10: both drift analyses report has_drifted exactly when the drop is
\* strictly greater than the threshold (SpecDrift).
C10_StrictThreshold ==
    (analysis.table # "none" /\ analysis.latest # 0) =>
        (analysis.has_drifted <=> AnalysedDrop > analysis.threshold)

\* C10 witness: an analysis of a history whose drop equals a positive
\* threshold, reported as no drift
C10_Witness ==
    /\ analysis.table # "none"
    /\ analysis.latest # 0
    /\ analysis.threshold > 0
    /\ AnalysedDrop = analysis.threshold
    /\ ~analysis.has_drifted

\* the table the last analysis read, and the rows in it that carry the
\* analysed model's name
AnalysedTable == IF analysis.table = "runs" THEN runs ELSE rag_runs
OwnRows == {r \in AnalysedTable : r.model_name = analysis.model_name}
OtherRows == AnalysedTable \ OwnRows

\* C11: for a model with runs, the analysis takes as latest the model's row of
\* greatest timestamp and as best a row of the model whose tracked metric is
\* the maximum over all the model's rows, the latest included; both rows are
\* rows of that model whatever other models' rows the table holds (SpecDrift).
C11_LatestAndBest ==
    (analysis.table # "none" /\ OwnRows # {}) =>
        \E l, b \in OwnRows :
            /\ l.id = analysis.latest
            /\ b.id = analysis.best
            /\ l.metric = analysis.latest_metric
            /\ b.metric = analysis.best_metric
            /\ \A o \in OwnRows : o.timestamp <= l.timestamp
            /\ \A o \in OwnRows : o.metric <= b.metric

\* C11 witness: an analysis whose best row is older than its latest row, while
\* another model has a row that is both more recent and better
C11_Witness ==
    /\ analysis.table # "none"
    /\ analysis.latest # 0
    /\ analysis.best # analysis.latest
    /\ \E o \in OtherRows :
         /\ \A r \in OwnRows : r.timestamp < o.timestamp
         /\ o.metric > analysis.best_metric

\* the drop of the last analysis: best.metric - latest.metric
ReportedDrop == analysis.best_metric - analysis.latest_metric

\* the latest row of the last analysis has a greater metric than every older
\* row of the model, and there is an older row
LatestBeatsHistory ==
    /\ analysis.table # "none"
    /\ analysis.latest # 0
    /\ \E r \in OwnRows : r.id # analysis.latest
    /\ \A r \in OwnRows : r.id # analysis.latest => r.metric < analysis.latest_metric

\* C12 as stated: when the latest run is better than all history the drop is
\* below zero (SpecDrift).
C12_DropCanBeNegative ==
    LatestBeatsHistory => ReportedDrop < 0

\* C12 amended: the drop is best.metric - latest.metric with best taken over
\* all the model's rows, the latest included, so it is never negative, and it
\* is zero when no row of the model beats the latest one (SpecDrift).
C12_DropNeverNegative ==
    (analysis.table # "none" /\ analysis.latest # 0) =>
        /\ ReportedDrop >= 0
        /\ \E top \in OwnRows :
             /\ \A o \in OwnRows : o.metric <= top.metric
             /\ ReportedDrop = top.metric - analysis.latest_metric
        /\ (\A r \in OwnRows : r.metric <= analysis.latest_metric) => ReportedDrop = 0

\* C12 witness: the latest run beats every older run of the model and the
\* drop is zero
C12_Witness ==
    /\ LatestBeatsHistory
    /\ ReportedDrop = 0

\* C13: for a model without runs check_drift does not raise and returns a
\* verdict with drift_detected false, an error entry and no latest_run or
\* best_run entry, which no verdict of a model with runs is; process_run
\* then calls no channel and returns an empty alerts_sent (SpecDrift).
C13_NoDataVerdict ==
    report.done =>
        /\ ~report.raised
        /\ ("error" \in report.keys) <=> (RunsOf(runs, report.model) = {})
        /\ ("latest_run" \in report.keys) <=> (RunsOf(runs, report.model) # {})
        /\ ("best_run" \in report.keys) <=> (RunsOf(runs, report.model) # {})
        /\ RunsOf(runs, report.model) = {} =>
              /\ ~report.drift_detected
              /\ report.calls = <<>>
              /\ report.alerts_sent = <<>>

\* C13 witness: process_run returned for a model without runs while another
\* model has a history that drifted
C13_Witness ==
    /\ report.done
    /\ RunsOf(runs, report.model) = {}
    /\ \E a, b \in runs : a.timestamp > b.timestamp /\ a.metric < b.metric

\* C14: process_run calls a channel only if the payload it computed says
\* drift_detected; otherwise it makes no send and alerts_sent is empty
\* (SpecDrift).
C14_AlertsOnlyOnDrift ==
    (report.done /\ ~report.drift_detected) =>
        /\ report.calls = <<>>
        /\ report.alerts_sent = <<>>

\* C14 witness: process_run returned no drift for a model whose latest run is
\* below its best run
C14_Witness ==
    /\ report.done
    /\ ~report.drift_detected
    /\ report.drift_percentage > 0
    /\ report.calls = <<>>

\* C15: when drift is detected every one of the three channels is called, in
\* whatever way the others ended, send_all_alerts does not raise, and
\* alerts_sent has one entry per channel, true exactly for the channels whose
\* own send succeeded (SpecDrift).
C15_ChannelIsolation ==
    (report.done /\ report.drift_detected) =>
        /\ ~report.raised
        /\ report.calls = Channels
        /\ Len(report.alerts_sent) = Len(Channels)
        /\ \A n \in DOMAIN Channels :
             /\ report.alerts_sent[n][1] = Channels[n]
             /\ report.alerts_sent[n][2] <=> (report.env[Channels[n]] = "ok")

\* C15 witness: drift was detected, the first channel failed and a later
\* channel delivered
C15_Witness ==
    /\ report.done
    /\ report.drift_detected
    /\ report.env["webhook"] = "error"
    /\ report.env["email"] = "ok"
    /\ Len(report.alerts_sent) = 3
    /\ report.alerts_sent[3][2]

\* v is x = num / den rounded to four decimals, in ten-thousandths
IsRounded(v, num, den) ==
    /\ 2 * (den * v - 10000 * num) <= den
    /\ 2 * (10000 * num - den * v) <= den

\* the inputs of the metrics computation
TruePositives == Cardinality(SetOf(m_retrieved) \cap SetOf(m_relevant))
TotalRelevant == Cardinality(SetOf(m_relevant))
HitRanks == {n \in DOMAIN m_retrieved : m_retrieved[n] \in SetOf(m_relevant)}

\* C16: precision@k is hits / k, recall@k is hits / |relevant| and 0 for an
\* empty relevant set, f1@k is the harmonic mean 2 * hits / (k + |relevant|)
\* and 0 without hits, mrr is 1 / rank of the first relevant id and 0 without
\* hits, all to four decimals; relevant {1,2}, k = 5, retrieved [2,3,4,5,6]
\* gives 0.2, 0.5, 0.2857 and 1.0 (SpecMetrics).
C16_RetrievalMetrics ==
    m_pc = "done" =>
        /\ IsRounded(m_metrics.precision_at_k, TruePositives, m_top_k)
        /\ IF TotalRelevant = 0
           THEN m_metrics.recall_at_k = 0
           ELSE IsRounded(m_metrics.recall_at_k, TruePositives, TotalRelevant)
        /\ IF TruePositives = 0
           THEN m_metrics.f1_at_k = 0
           ELSE IsRounded(m_metrics.f1_at_k, 2 * TruePositives, m_top_k + TotalRelevant)
        /\ IF HitRanks = {}
           THEN m_metrics.mrr = 0
           ELSE \E first \in HitRanks :
                    /\ \A n \in HitRanks : first <= n
                    /\ IsRounded(m_metrics.mrr, 1, first)
        /\ (m_relevant = <<1, 2>> /\ m_top_k = 5 /\ m_retrieved = <<2, 3, 4, 5, 6>>) =>
              /\ m_metrics.precision_at_k = 2000
              /\ m_metrics.recall_at_k = 5000
              /\ m_metrics.f1_at_k = 2857
              /\ m_metrics.mrr = 10000

\* C16 witness: the metrics of relevant {1,2}, k = 5, retrieved [2,3,4,5,6]
C16_Witness ==
    /\ m_pc = "done"
    /\ m_relevant = <<1, 2>>
    /\ m_top_k = 5
    /\ m_retrieved = <<2, 3, 4, 5, 6>>
    /\ m_metrics.f1_at_k = 2857

\* the position in the corpus of the document with a chunk id
CorpusPosition(chunk_id) ==
    CHOOSE i \in DOMAIN rs_documents : rs_documents[i].chunk_id = chunk_id

\* C17: retrieve returns the documents of greatest similarity by descending
\* similarity with ranks 1..n, and of two documents of equal similarity the
\* one that comes earlier in the corpus is ranked first (SpecRetrieval).
C17_StableRanking ==
    \A t \in Threads :
        workers[t].pc = "done" =>
            LET r == workers[t].results
            IN  /\ \A n \in DOMAIN r : r[n].rank = n
                /\ \A a, b \in DOMAIN r :
                     a < b =>
                        \/ r[a].score > r[b].score
                        \/ /\ r[a].score = r[b].score
                           /\ CorpusPosition(r[a].chunk_id) < CorpusPosition(r[b].chunk_id)

\* two rankings agree wherever both have an entry
SameRanking(r1, r2) ==
    \A n \in DOMAIN r1 \cap DOMAIN r2 : r1[n] = r2[n]

\* C18: no step of retrieve or evaluate_retrieval changes the documents or the
\* embeddings of the retriever, and every retrieval, whatever the threads did
\* before and during it, returns the chunk ids and scores the first retrieval
\* for its query returned (SpecRetrieval).
C18_RetrievalIdempotent ==
    /\ [][rs_documents' = rs_documents /\ rs_embeddings' = rs_embeddings]_vars
    /\ [](\A t \in Threads :
            workers[t].pc = "done" =>
                SameRanking(RankingOf(workers[t].results), first_results[workers[t].query]))

\* C18 witness: two threads hold the results of retrievals for the same query
\* with different top_k, after a retrieval for the other query
C18_Witness ==
    /\ \A q \in Queries : first_results[q] # <<>>
    /\ \E t1, t2 \in Threads :
         /\ workers[t1].pc = "done"
         /\ workers[t2].pc = "done"
         /\ workers[t1].query = workers[t2].query
         /\ workers[t1].top_k < workers[t2].top_k
         /\ workers[t1].op = "evaluate"
         /\ Len(workers[t2].results) > 1

\* C19: an initialisation computes the corpus embeddings only when the cache
\* has no entry for its embedding model or the entry's size is not the size
\* of the live corpus, and then writes them to the cache; the embeddings in
\* use have one vector per live document; and every vector in use was
\* computed by the embedding model of the initialisation (SpecCache).
C19_CacheKeyedByModel ==
    system.constructed =>
        /\ system.encoded <=>
              (~system.cache_existed \/ system.cached_len # Len(kb_documents))
        /\ system.encoded =>
              /\ system.written
              /\ cache_files[_get_cache_path(system.model_name)] = system.embeddings
        /\ Len(system.embeddings) = Len(kb_documents)
        /\ \A i \in DOMAIN system.embeddings :
             system.embeddings[i].by = system.model_name

\* a model call that failed with a timeout or a connection error
IsTransient(o) == o.kind \in {"timeout", "connection"}

\* the model calls and sleeps of a result, in order
CallsAndSleeps(r) == SelectSeq(r.events, LAMBDA e : e.op \in {"call", "sleep"})

\* n attempts with the backoff sleeps between them
Schedule(n) ==
    [i \in 1..(2 * n - 1) |->
        IF i % 2 = 1 THEN CallEvent((i - 1) \div 2) ELSE SleepEvent(BACKOFF_DELAYS[i \div 2])]

\* C20: when every model call fails with a timeout or a connection error
\* there are exactly 3 calls with a 5s sleep after the first and a 10s sleep
\* after the second and none after the third; when call n succeeds after
\* n - 1 such failures there are exactly n calls and the first n - 1 sleeps
\* (SpecEval).
C20_BackoffSchedule ==
    (eq_pc = "done" /\ eq_calls # <<>>) =>
        /\ (\A n \in DOMAIN eq_calls : IsTransient(eq_calls[n])) =>
              CallsAndSleeps(eq_result) = Schedule(MAX_RETRIES + 1)
        /\ \A n \in DOMAIN eq_calls :
             (eq_calls[n].kind = "ok" /\ \A k \in 1..(n - 1) : IsTransient(eq_calls[k])) =>
                 CallsAndSleeps(eq_result) = Schedule(n)

\* C21: for a question whose image file is missing or unreadable the core
\* evaluate_question returns score 0.0, no model response and a reasoning
\* about the image, and makes no model call, no judge call and no sleep
\* (SpecEval).
C21_ImageFailsFast ==
    (eq_pc = "done" /\ eq_impl = "core" /\ eq_image_path = "missing.png") =>
        /\ ~eq_result.raised
        /\ eq_result.score = 0
        /\ eq_result.model_response = "none"
        /\ eq_result.reasoning.text = "Image file not found or unreadable"
        /\ eq_result.events = <<>>
        /\ eq_calls = <<>>
        /\ eq_judge = NoJudge

\* C21 witness: the core evaluate_question returned for a question with a
\* missing image
C21_Witness ==
    /\ eq_pc = "done"
    /\ eq_impl = "core"
    /\ eq_image_path = "missing.png"
    /\ eq_result.score = 0

\* the positions of the judge calls in the events of a result
JudgePositions(r) == {n \in DOMAIN r.events : r.events[n].op = "judge"}

\* C22: one evaluate_question call invokes the judge at most once, right
\* after a successful model call and as its last step; a judge call that
\* raised, got an error status or an unparsable reply gives score 0.0 with a
\* reasoning that describes it, and is followed by no further judge call,
\* model call or sleep (SpecEval).
C22_JudgeOnceNoRetry ==
    eq_pc = "done" =>
        /\ Cardinality(JudgePositions(eq_result)) <= 1
        /\ \A n \in JudgePositions(eq_result) :
             /\ n = Len(eq_result.events)
             /\ n > 1
             /\ eq_result.events[n - 1].op = "call"
             /\ eq_calls[Len(eq_calls)].kind = "ok"
             /\ \A k \in 1..(Len(eq_calls) - 1) : eq_calls[k].kind # "ok"
        /\ (eq_judge # NoJudge /\ JudgeFailed(eq_judge)) =>
              /\ ~eq_result.raised
              /\ eq_result.score = 0
              /\ eq_result.reasoning.text \in {"Exception", "HTTP", "Invalid JSON from judge"}

\* C22 witness: the judge raised after a model call that succeeded on its
\* second attempt
C22_Witness ==
    /\ eq_pc = "done"
    /\ Len(eq_calls) = 2
    /\ eq_judge.kind = "exception"
    /\ eq_result.score = 0
    /\ Attempts(eq_result) = 2

\* a judge reply that cannot be parsed: no SCORE line, or a SCORE value that
\* is not a number
Unparsable(o) == o.kind = "reply" /\ o.score_line.kind \in {"none", "text"}

\* C23: in the RAG path, a judge reply that cannot be parsed (no SCORE line,
\* or a SCORE value that is not a number) makes _judge_answer and
\* _judge_grounding return score 0.0 with a non-empty reasoning, and neither
\* raises (SpecRagQuestion).
C23_UnparsableJudgeReply ==
    (rq_pc = "done" /\ rq_env.retrieval.kind = "ok") =>
        /\ ~rq_out.raised
        /\ Unparsable(rq_env.judge) =>
              /\ rq_out.result.answer_score = 0
              /\ rq_out.result.answer_reasoning # ""
        /\ Unparsable(rq_env.grounding) =>
              /\ rq_out.result.grounding_score = 0
              /\ rq_out.result.grounding_reasoning # ""

\* C24: evaluate_all never raises because a question failed, and the results
\* it returns hold one record for every question, a failed question's record
\* having score 0.0, in parallel and in sequential mode (SpecRag).
C24_CompleteResults ==
    /\ ra_pc # "raised"
    /\ ra_pc = "returned" =>
          /\ Len(ra_results) = Cardinality(ra_questions)
          /\ ra_summary.total_questions = Cardinality(ra_questions)
          /\ \A q \in ra_questions :
                \E n \in DOMAIN ra_results :
                    /\ ra_results[n].question_id = q
                    /\ ra_outcomes[q].raised => ra_results[n].answer_score = 0

\* the positions of the calls of one kind among the calls of a RAG question
RagCalls(out, op) == {n \in DOMAIN out.events : out.events[n].op = op}

\* C30: evaluate_single_question makes exactly one generation call; when that
\* call fails, the answer is the "[ERROR: ...]" string, each judge is called
\* exactly once with that string, and the result carries the metrics of the
\* retrieval (SpecRagQuestion).
C30_OneGenerationCall ==
    (rq_pc = "done" /\ rq_env.retrieval.kind = "ok") =>
        /\ Cardinality(RagCalls(rq_out, "generate")) = 1
        /\ rq_env.generation # "ok" =>
              /\ ~rq_out.raised
              /\ rq_out.result.generated_answer = "[ERROR]"
              /\ \A op \in {"judge_answer", "judge_grounding"} :
                    /\ Cardinality(RagCalls(rq_out, op)) = 1
                    /\ \A n \in RagCalls(rq_out, op) : rq_out.events[n].answer = "[ERROR]"
              /\ rq_out.result.retrieved_chunk_ids = rq_env.retrieval.ranking
              /\ rq_out.result.retrieval_recall =
                    (IF SetOf(rq_env.relevant) \subseteq SetOf(rq_env.retrieval.ranking)
                     THEN 10000 ELSE 0)

\* C30 witness: the generation call timed out and the question still has its
\* result, with the retrieved documents and both judgements
C30_Witness ==
    /\ rq_pc = "done"
    /\ rq_env.generation = "timeout"
    /\ rq_env.judge.kind = "reply"
    /\ rq_out.result.generated_answer = "[ERROR]"
    /\ Len(rq_out.result.retrieved_chunk_ids) = 2
    /\ rq_out.result.retrieval_recall = 10000

\* C25: the metrics evaluate_retrieval returns have at most top_k and at most
\* corpus-size retrieved chunk ids, and precision, recall, f1 and mrr between
\* 0 and 1, also for a corpus smaller than top_k and for repeated relevant
\* ids (SpecMetrics).
C25_MetricsBounded ==
    m_pc = "done" =>
        /\ Len(m_metrics.retrieved_chunk_ids) <= m_top_k
        /\ Len(m_metrics.retrieved_chunk_ids) <= m_corpus
        /\ m_metrics.precision_at_k \in 0..10000
        /\ m_metrics.recall_at_k \in 0..10000
        /\ m_metrics.f1_at_k \in 0..10000
        /\ m_metrics.mrr \in 0..10000

\* C25 witness: a corpus of two documents queried with top_k = 4, both
\* relevant and one of them listed twice
C25_Witness ==
    /\ m_pc = "done"
    /\ m_corpus = 2
    /\ m_top_k = 4
    /\ m_relevant = <<1, 2, 1>>
    /\ Len(m_metrics.retrieved_chunk_ids) = 2
    /\ m_metrics.recall_at_k = 10000
    /\ m_metrics.precision_at_k = 5000

\* C26: whatever the order in which a model's questions completed, the
\* results handed to save_run hold every question exactly once, and the
\* total_questions and the accuracy stored for the run are those of the
\* results in submission order (Spec).
C26_OrderIndependentAggregates ==
    \A m \in models :
        db_rows[m] # NoRow =>
            /\ IsPermutationOf(results[m], questions)
            /\ db_rows[m].total_questions = Cardinality(questions)
            /\ db_rows[m].accuracy = RunRow([q \in questions |-> q]).accuracy

\* C27: process_run(model_name, run_id) with the id of one of the model's
\* runs reports on that run, and with run_id = None on the model's latest
\* run (SpecDetector).
C27_ChecksGivenRun ==
    (report.done /\ ~report.raised) =>
        /\ (report.run_id # None /\ report.run_id \in {r.id : r \in RunsOf(runs, report.model)}) =>
              report.latest_run = report.run_id
        /\ (report.run_id = None /\ RunsOf(runs, report.model) # {}) =>
              report.latest_run \in {r.id : r \in LatestCandidates(RunsOf(runs, report.model))}

\* C29: save_run is called at most once per model, only for a model whose
\* evaluation returned with every question finished and never for one that
\* raised; at most one save_run call is running at any time, also while
\* other models are evaluated; at the end every model that returned has had
\* its call (Spec).
C29_SaveOncePerFinishedModel ==
    /\ \A m \in models :
         /\ SaveCallsFor(m) <= 1
         /\ SaveCallsFor(m) = 1 =>
               /\ model_futures[m] = "finished"
               /\ inflight[m] = {}
               /\ next_q[m] = Cardinality(questions)
               /\ IsPermutationOf(results[m], questions)
         /\ model_futures[m] = "failed" => SaveCallsFor(m) = 0
    /\ saving \subseteq Range(save_calls)
    /\ Cardinality(saving) <= 1
    /\ hpc = "done" =>
          /\ saving = {}
          /\ \A m \in models : model_futures[m] = "finished" => SaveCallsFor(m) = 1

\* C29 witness: the second save_run call of the run is running while another
\* model is still evaluating a question and a third one has failed
C29_Witness ==
    /\ Len(save_calls) = 2
    /\ saving = {save_calls[2]}
    /\ \E m \in models : model_futures[m] = "running" /\ inflight[m] # {}
    /\ \E m \in models : model_futures[m] = "failed" /\ m \in collected

\* the harness has handled every model: each submitted question was evaluated,
\* each model's future was consumed, a model that returned has its summary
\* and, in run_evaluation_task, a model that raised has its error entry
Handled(m) ==
    /\ model_futures[m] \in {"finished", "failed"}
    /\ next_q[m] = submitted[m]
    /\ inflight[m] = {}
    /\ m \in collected
    /\ (model_futures[m] = "finished" \/ impl = "api") => SummariesOf(m) # {}

\* C28: when every call returns or fails and the threads are scheduled, a
\* harness run ends: every submitted question is evaluated, every model
\* reaches its summary or its error branch, and the harness gets to its
\* payload (SpecFair).
C28_HarnessTerminates ==
    <>(hpc = "done" /\ saving = {} /\ \A m \in models : Handled(m))

\* C28 witness: a run over more models than model workers has ended, one of
\* its models having failed
C28_Witness ==
    /\ hpc = "done"
    /\ Cardinality(models) > MODEL_WORKERS
    /\ \E m \in models : model_futures[m] = "failed"
    /\ \A m \in models : Handled(m)

====
